---------------------------- MODULE Spec2Model ----------------------------
(***************************************************************************)
(* Model of the offload dispatcher (GeoWorkerAPI, src/unnamed/part_001)    *)
(* and of the calculation worker (src/unnamed/part_002).                   *)
(*                                                                         *)
(* Two threads exchange messages over two FIFO channels:                   *)
(*   wInbox   main  -> worker  (worker.postMessage)                        *)
(*   wOutbox  worker -> main   (self.postMessage, and the error event)     *)
(* The main thread runs one task at a time.  Every API call is made from   *)
(* a task of its own (an event listener), as all callers in finder.js and  *)
(* the window 'load' listener do; the continuation of `await this.init()`  *)
(* is a microtask, so it runs at the end of the task that settles the      *)
(* awaited promise, before any other task of the main thread.              *)
(* A worker handler runs to completion; what it does after an `await` is a *)
(* separate step (wAsync).                                                 *)
(***************************************************************************)
EXTENDS Integers, Sequences, FiniteSets, TLC

\* ------------------------------------------------------------------ bounds
MaxCalls == 3       \* API calls made in one behaviour (init / find / midpoints)
MaxPts == 3         \* largest length of pointsA and of pointsB in a request
MaxSizedCalls == 1  \* requests made in one behaviour of SizesSpec
MaxLiveCalls == 2   \* API calls made in one behaviour of LiveSpec
MaxLivePts == 2     \* length of pointsB in a request of LiveSpec
MaxLen == 2         \* largest length of pointsA and of pointsB in a search
MaxCoord == 1       \* points and targets of a search are the positions 0..MaxCoord
SmallLen == 2       \* length of a short point list of the finder page
LargeLen == 100     \* length of a long point list (LargeLen - 1 and LargeLen + 1 also occur)
MaxUploads == 1     \* files uploaded in one behaviour
MaxOps == 2         \* findCombinations / generateHeatmap calls in one behaviour
MaxPairs == 2       \* largest number of pairs in a grid file
MaxCities == 3      \* largest number of cities in a precompute pass
MaxStored == 2      \* largest number of precomputed pairs of a queried grid
MaxQueries == 1     \* grid queries in flight at once
MaxAccesses == 2    \* loadGridFile calls in one behaviour
MaxSwitches == 2    \* switchDataset calls in one behaviour

\* ---------------------------------------------------------------- constants
WORKER_THRESHOLD == 10000   \* GeoWorkerAPI.WORKER_THRESHOLD
topNOfFinder == 1000    \* findBestCombinationsAsync: topN: 1000
displayed == 50         \* displayCombinations: combinations.slice(0, 50)
GRID_SIZE == 5          \* degrees per grid cell

Calls == 1..MaxCalls

VARIABLES
    \* ---- GeoWorkerAPI (main thread)
    worker,           \* this.worker: 0 = null, g = the g-th Worker object
    isReady,          \* this.isReady
    useWasm,          \* this.useWasm
    requestId,        \* this.requestId
    pendingRequests,  \* this.pendingRequests: request id -> call whose promise it settles
    initPromise,      \* state of the promise created by init() for the current Worker
    nWorkers,         \* number of Worker objects constructed so far
    calls,            \* the API calls made so far (their async function's position)
    nCalls,           \* number of API calls made so far
    \* ---- the worker thread of the current Worker object
    wState,           \* "none" | "loading" | "running" | "failed"
    wasmReady,        \* worker-side wasmReady
    wAsync,           \* the worker's pending asynchronous continuations
    wInbox,           \* messages posted to the worker, not yet handled
    wOutbox,          \* messages/events posted by the worker, not yet delivered
    \* ---- history (what happened, for stating the properties)
    live,             \* Worker objects constructed and not terminated
    built,            \* Workers constructed since the last terminate()
    posted,           \* what the current worker posted about requests, in order
    recvLog,          \* ids of the requests the current worker handled, in order
    sentLog,          \* ids of the requests the dispatcher posted, in order
    settleLog,        \* every resolve()/reject() call made by worker.onmessage
    abandoned,        \* calls whose request was pending when terminate() ran
    \* ---- one combination search on concrete point lists
    args,             \* its arguments: pointsA, pointsB, target
    ran,              \* the function that was run on them, and its topN
    returned,         \* what it returned (or posted, or stored)
    \* ---- the finder page (finder.js)
    pointsA,          \* the array pointsA refers to
    pointsB,          \* the array pointsB refers to
    combinations,     \* the list combinations refers to
    allMidpoints,     \* the cache of all midpoints
    inflight,         \* the delegated calls awaiting their promise, oldest first
    nUploads,         \* number of files uploaded so far
    nOps,             \* number of findCombinations / generateHeatmap calls so far
    lastOp,           \* the route the last such call took
    \* ---- one grid query of the cities page (cities.js)
    query,            \* the grid and the requested number of results
    scan,             \* findBestCombinations: its position, its allCandidates
    gridCache,        \* keys of the grid files in gridCache
    tried,            \* the radii tried so far, with the candidates found at each
    loads,            \* the loadGridFile calls made so far
    cityCombinations, \* the list `combinations` of cities.js
    \* ---- the precompute pass, the cell lookup, the cell cache, the heatmap fill
    \* ---- and the reflections, each the state of one run
    build,            \* buildDataset of build-midpoints.js: its loop and its grid
    seek,             \* a query of cities.js on a built grid: keys, candidates, results
    cache,            \* currentDataset, gridCache and the loadGridFile calls in flight
    heat,             \* generateHeatmap of finder.js: tileData and the fill's queue
    reflect,          \* calculateAllReflections of GeoCalc
    loader            \* DataLoader.parseLine on one line

apiVars == <<worker, isReady, useWasm, requestId, pendingRequests, initPromise, nWorkers,
            calls, nCalls>>
wVars == <<wState, wasmReady, wAsync, wInbox, wOutbox>>
histVars == <<live, built, posted, recvLog, sentLog, settleLog, abandoned>>
searchVars == <<args, ran, returned>>
finderVars == <<pointsA, pointsB, combinations, allMidpoints, inflight, nUploads, nOps, lastOp>>
gridVars == <<query, scan, gridCache, tried, loads, cityCombinations>>
toolVars == <<build, seek, cache, heat, reflect, loader>>
pageVars == <<searchVars, finderVars, gridVars, toolVars>>
Idle == [phase |-> "idle"]
ToolsIdle ==
    /\ build = Idle
    /\ seek = Idle
    /\ cache = Idle
    /\ heat = Idle
    /\ reflect = Idle
    /\ loader = Idle
vars == <<apiVars, wVars, histVars, pageVars>>

\* ---------------------------------------------------------------- messages
RequestKinds == {"findBestCombinations", "calculateAllMidpoints"}

InitMsg == [type |-> "init", id |-> 0, n |-> 0, m |-> 0, bad |-> FALSE]
RequestMsg(kind, id, n, m, bad) == [type |-> kind, id |-> id, n |-> n, m |-> m, bad |-> bad]

ReadyMsg(wasm) == [type |-> "ready", id |-> 0, progress |-> 0, wasm |-> wasm]
ProgressMsg(id, p) == [type |-> "progress", id |-> id, progress |-> p, wasm |-> FALSE]
ResultMsg(id) == [type |-> "result", id |-> id, progress |-> 0, wasm |-> FALSE]
ErrorMsg(id) == [type |-> "error", id |-> id, progress |-> 0, wasm |-> FALSE]
ErrorEvent == [type |-> "onerror", id |-> 0, progress |-> 0, wasm |-> FALSE]

Terminal == {"result", "error"}

\* An API call: its kind and arguments while it awaits init(), the id under
\* which its request was registered, and the state of the promise it returned
\* ("awaitInit" and "posted" are a pending promise).
NoCall == [kind |-> "none", state |-> "unused", await |-> 0, id |-> 0,
           n |-> 0, m |-> 0, bad |-> FALSE]


\* ------------------------------------------------------------------ worker
\* findBestCombinationsJS / calculateAllMidpointsJS: the progress values the
\* double loop posts while it completes the pairs processed+1 .. upto of `total`.
\* Math.floor((processed / total) * 100) equals the integer quotient for every
\* total below 50 (the first double rounding that differs is 29/50).
RECURSIVE JSLoop(_, _, _, _)
JSLoop(total, processed, upto, lastProgress) ==
    IF processed >= upto THEN <<>>
    ELSE LET progress == ((processed + 1) * 100) \div total
         IN  IF progress > lastProgress
             THEN <<progress>> \o JSLoop(total, processed + 1, upto, progress)
             ELSE JSLoop(total, processed + 1, upto, lastProgress)

\* Mutant: the outer loop runs while i <= pointsA.length and reads the .lat of
\* an element that is not there.
JSThrows_ReadsPastEnd(msg) == TRUE

\* A `bad` request carries a null as the last element of pointsB: reading its
\* .lat throws a TypeError.  The JS loops reach it at pair (0, m-1); the WASM
\* path reaches it in pointsToFlat(pointsB).
JSThrows(msg) == msg.bad /\ msg.n > 0 /\ msg.m > 0
JSCompleted(msg) == IF JSThrows(msg) THEN msg.m - 1 ELSE msg.n * msg.m
WASMThrows(msg) == msg.bad /\ msg.m > 0

\* Mutant: the percentage is taken of pointsA.length instead of the number of pairs.
JSProgress_TotalOfA(msg) == JSLoop(msg.n, 0, JSCompleted(msg), 0)

\* The progress values one request's handler posts, in order.
JSProgress(msg) == JSLoop(msg.n * msg.m, 0, JSCompleted(msg), 0)
WASMProgress(msg) == IF WASMThrows(msg) THEN <<0>> ELSE <<0, 100>>

\* The terminal message of the try/catch around the computation.
TerminalMsg(msg, wasm) ==
    IF (wasm /\ WASMThrows(msg)) \/ (~wasm /\ JSThrows(msg))
    THEN ErrorMsg(msg.id)
    ELSE ResultMsg(msg.id)

ProgressMsgs(msg, wasm) ==
    LET ps == IF wasm THEN WASMProgress(msg) ELSE JSProgress(msg)
    IN  [k \in 1..Len(ps) |-> ProgressMsg(msg.id, ps[k])]

\* initWasm() up to its first await: a pending continuation of the worker.
InitWasmStarted == [initWasm |-> TRUE, msgs |-> <<>>]

\* initWasm() after its awaits: `ok` is whether fetching and instantiating
\* the WASM module succeeded (try) or threw (catch).
InitWasmPosts(ok) == <<ReadyMsg(ok)>>

\* Mutant: the request branches yield to the event loop before posting their
\* terminal message.
HandlerAwaits_Always(msg) == TRUE

\* self.onmessage awaits only in its 'init' branch; the request branches run
\* to completion without yielding.
HandlerAwaits(msg) == msg.type = "init"

\* Mutant: progressCallback(100) is called once more after the result was posted.
HandlerPosts_ProgressAfterResult(msg, wasm) ==
    IF msg.type = "init" THEN <<>>
    ELSE ProgressMsgs(msg, wasm) \o <<TerminalMsg(msg, wasm), ProgressMsg(msg.id, 100)>>

\* Mutant: the catch block logs the error and posts nothing.
HandlerPosts_SwallowError(msg, wasm) ==
    IF msg.type = "init" THEN <<>>
    ELSE IF TerminalMsg(msg, wasm).type = "error" THEN ProgressMsgs(msg, wasm)
    ELSE Append(ProgressMsgs(msg, wasm), TerminalMsg(msg, wasm))

\* What self.onmessage posts before it returns or first awaits.
HandlerPosts(msg, wasm) ==
    IF msg.type = "init" THEN <<>>
    ELSE IF HandlerAwaits(msg) THEN ProgressMsgs(msg, wasm)
    ELSE Append(ProgressMsgs(msg, wasm), TerminalMsg(msg, wasm))

\* What self.onmessage leaves to be done after its await.
HandlerDefers(msg, wasm) ==
    IF msg.type = "init" THEN <<InitWasmStarted>>
    ELSE IF HandlerAwaits(msg)
         THEN <<[initWasm |-> FALSE, msgs |-> <<TerminalMsg(msg, wasm)>>]>>
    ELSE <<>>

\* The history entries of the posted messages `out`.
Logged(out) == [k \in 1..Len(out) |->
                   [type |-> out[k].type, id |-> out[k].id, progress |-> out[k].progress]]

\* The worker script is evaluated: onmessage is installed and the module's
\* last statement starts initWasm().
WorkerStart ==
    /\ UNCHANGED pageVars
    /\ wState = "loading"
    /\ wAsync' = <<InitWasmStarted>>
    /\ wState' = "running"
    /\ UNCHANGED <<apiVars, wasmReady, wInbox, wOutbox, histVars>>

\* The worker script fails to load or to evaluate: the Worker object gets an
\* error event and the worker never handles a message.
WorkerLoadFail ==
    /\ UNCHANGED pageVars
    /\ wState = "loading"
    /\ wState' = "failed"
    /\ wOutbox' = Append(wOutbox, ErrorEvent)
    /\ UNCHANGED <<apiVars, wasmReady, wAsync, wInbox, histVars>>

\* The message the worker's event loop hands to self.onmessage next.
NextMessage == Head(wInbox)

\* self.onmessage for the next message, up to its return or first await.
WorkerHandle ==
    /\ UNCHANGED pageVars
    /\ wState = "running"
    /\ wInbox # <<>>
    /\ LET msg == NextMessage
           out == HandlerPosts(msg, wasmReady)
       IN  /\ wInbox' = Tail(wInbox)
           /\ wAsync' = wAsync \o HandlerDefers(msg, wasmReady)
           /\ wOutbox' = wOutbox \o out
           /\ posted' = posted \o Logged(out)
           /\ recvLog' = IF msg.type = "init" THEN recvLog ELSE Append(recvLog, msg.id)
    /\ UNCHANGED <<apiVars, wState, wasmReady, live, built, sentLog, settleLog, abandoned>>

RemoveAt(s, i) == [k \in 1..(Len(s) - 1) |-> IF k < i THEN s[k] ELSE s[k + 1]]

\* An awaited operation of the worker completes and its continuation runs.
WorkerAsyncDone ==
    /\ UNCHANGED pageVars
    /\ wState = "running"
    /\ \E i \in 1..Len(wAsync) :
          \E ok \in (IF wAsync[i].initWasm THEN BOOLEAN ELSE {wasmReady}) :
             LET out == IF wAsync[i].initWasm THEN InitWasmPosts(ok) ELSE wAsync[i].msgs
             IN  /\ wAsync' = RemoveAt(wAsync, i)
                 /\ wasmReady' = ok
                 /\ wOutbox' = wOutbox \o out
                 /\ posted' = posted \o Logged(out)
    /\ UNCHANGED <<apiVars, wState, wInbox, live, built, recvLog, sentLog, settleLog, abandoned>>


\* -------------------------------------------------------------- dispatcher
\* Mutant: init() without its early return.
InitCreatesWorker_Always == TRUE

\* init(): `if (this.worker) return Promise.resolve()`.
InitCreatesWorker == worker = 0

\* `const id = ++this.requestId`.
NextId == requestId + 1

\* The executor of the request's promise: register it under a fresh id and
\* post the request to the worker.
SendRequest(c, kind, n, m, bad) ==
    LET id == NextId
    IN  /\ requestId' = id
        /\ pendingRequests' = [k \in DOMAIN pendingRequests \cup {id} |->
                                  IF k = id THEN c ELSE pendingRequests[k]]
        /\ calls' = [calls EXCEPT ![c] =
                        [NoCall EXCEPT !.state = "posted", !.id = id]]
        /\ wInbox' = Append(wInbox, RequestMsg(kind, id, n, m, bad))
        /\ sentLog' = Append(sentLog, id)

\* `new Worker(...)`, the installation of onmessage/onerror and the posting
\* of {type: 'init'}, by call c.
NewWorker(c, kind, n, m, bad) ==
    LET g == nWorkers + 1
    IN  /\ nWorkers' = g
        /\ worker' = g
        /\ initPromise' = "pending"
        /\ calls' = [calls EXCEPT ![c] =
                        [NoCall EXCEPT !.kind = kind, !.state = "awaitInit", !.await = g,
                                       !.n = n, !.m = m, !.bad = bad]]
        /\ wState' = "loading"
        /\ wasmReady' = FALSE
        /\ wAsync' = <<>>
        /\ wInbox' = <<InitMsg>>
        /\ wOutbox' = <<>>
        /\ live' = live \cup {g}
        /\ built' = built + 1
        /\ posted' = <<>>
        /\ recvLog' = <<>>

\* GeoWorkerAPI.init() called directly (the window 'load' listener).
\* `throws` is whether `new Worker` throws.
Initialize(throws) ==
    /\ UNCHANGED pageVars
    /\ nCalls < MaxCalls
    /\ nCalls' = nCalls + 1
    /\ LET c == nCalls + 1
       IN  IF ~InitCreatesWorker
           THEN /\ calls' = [calls EXCEPT ![c] = [NoCall EXCEPT !.state = "resolved"]]
                /\ UNCHANGED <<worker, initPromise, nWorkers, wVars, live, built, posted, recvLog>>
           ELSE IF throws
           THEN /\ calls' = [calls EXCEPT ![c] = [NoCall EXCEPT !.state = "rejected"]]
                /\ UNCHANGED <<worker, initPromise, nWorkers, wVars, live, built, posted, recvLog>>
           ELSE NewWorker(c, "init", 0, 0, FALSE)
    /\ UNCHANGED <<isReady, useWasm, requestId, pendingRequests, sentLog, settleLog, abandoned>>

CallInit == \E throws \in BOOLEAN : Initialize(throws)

\* GeoWorkerAPI.findBestCombinations / calculateAllMidpoints: `await
\* this.init()` and, when init() returned a settled promise, the rest of the
\* function in the same task.
Request(kind, n, m, bad, throws) ==
    /\ UNCHANGED pageVars
    /\ nCalls < MaxCalls
    /\ nCalls' = nCalls + 1
    /\ LET c == nCalls + 1
       IN  IF ~InitCreatesWorker
           THEN /\ SendRequest(c, kind, n, m, bad)
                /\ UNCHANGED <<worker, initPromise, nWorkers, wState, wasmReady, wAsync, wOutbox,
                               live, built, posted, recvLog>>
           ELSE IF throws
           THEN /\ calls' = [calls EXCEPT ![c] = [NoCall EXCEPT !.state = "rejected"]]
                /\ UNCHANGED <<worker, initPromise, nWorkers, wVars, live, built, posted,
                               recvLog, requestId, pendingRequests, sentLog>>
           ELSE /\ NewWorker(c, kind, n, m, bad)
                /\ UNCHANGED <<requestId, pendingRequests, sentLog>>
    /\ UNCHANGED <<isReady, useWasm, settleLog, abandoned>>

\* A request over point lists of lengths 1 and MaxPts.
CallRequest ==
    \E kind \in RequestKinds, bad \in BOOLEAN, throws \in BOOLEAN :
        Request(kind, 1, MaxPts, bad, throws)

\* The calls whose `await this.init()` waits for the promise of Worker g.
Awaiting(g) == {c \in Calls : calls[c].state = "awaitInit" /\ calls[c].await = g}

\* worker.onmessage, 'ready' branch, and the microtasks its resolve() starts.
OnReady(msg) ==
    /\ isReady' = TRUE
    /\ useWasm' = msg.wasm
    /\ initPromise' = IF initPromise = "pending" THEN "resolved" ELSE initPromise
    /\ IF initPromise = "pending" /\ Awaiting(worker) # {}
       THEN LET c == CHOOSE x \in Awaiting(worker) : TRUE
            IN  IF calls[c].kind = "init"
                THEN /\ calls' = [calls EXCEPT ![c] = [NoCall EXCEPT !.state = "resolved"]]
                     /\ UNCHANGED <<requestId, pendingRequests, wInbox, sentLog>>
                ELSE SendRequest(c, calls[c].kind, calls[c].n, calls[c].m, calls[c].bad)
       ELSE UNCHANGED <<calls, requestId, pendingRequests, wInbox, sentLog>>
    /\ UNCHANGED settleLog

\* worker.onerror, and the microtasks its reject() starts.
OnError ==
    /\ initPromise' = IF initPromise = "pending" THEN "rejected" ELSE initPromise
    /\ calls' = [c \in Calls |->
                    IF initPromise = "pending" /\ c \in Awaiting(worker)
                    THEN [NoCall EXCEPT !.state = "rejected"]
                    ELSE calls[c]]
    /\ UNCHANGED <<isReady, useWasm, requestId, pendingRequests, wInbox, sentLog, settleLog>>

\* worker.onmessage, 'progress' branch: calls request.onProgress, which is
\* the caller's and changes nothing here.
OnProgress(msg) ==
    UNCHANGED <<isReady, useWasm, initPromise, calls, requestId, pendingRequests,
                wInbox, sentLog, settleLog>>

\* The promise state after resolve()/reject(): a settled promise stays as it is.
Settled(state, type) ==
    IF state = "posted" THEN (IF type = "result" THEN "resolved" ELSE "rejected") ELSE state

\* Mutant: the table is cleared instead of deleting the one entry.
Deleted_All(id) == DOMAIN pendingRequests

\* The entries that worker.onmessage removes for a terminal message with `id`.
Deleted(id) == {id}

\* worker.onmessage, 'result' and 'error' branches: settle the promise
\* registered under the message's id and delete the entry.
OnTerminal(msg) ==
    /\ IF msg.id \in DOMAIN pendingRequests
       THEN LET c == pendingRequests[msg.id]
            IN  /\ calls' = [calls EXCEPT ![c].state = Settled(@, msg.type)]
                /\ pendingRequests' = [k \in DOMAIN pendingRequests \ Deleted(msg.id) |->
                                          pendingRequests[k]]
                /\ settleLog' = Append(settleLog, [id |-> msg.id, type |-> msg.type, call |-> c])
       ELSE UNCHANGED <<calls, pendingRequests, settleLog>>
    /\ UNCHANGED <<isReady, useWasm, initPromise, requestId, wInbox, sentLog>>

\* The next message or error event of the current Worker is delivered.
MainDeliver ==
    /\ UNCHANGED pageVars
    /\ wOutbox # <<>>
    /\ LET msg == Head(wOutbox)
       IN  /\ wOutbox' = Tail(wOutbox)
           /\ IF msg.type = "ready" THEN OnReady(msg)
              ELSE IF msg.type = "onerror" THEN OnError
              ELSE IF msg.type = "progress" THEN OnProgress(msg)
              ELSE OnTerminal(msg)
    /\ UNCHANGED <<worker, nWorkers, nCalls, wState, wasmReady, wAsync,
                   live, built, posted, recvLog, abandoned>>

\* Mutant: terminate() without this.pendingRequests.clear().
AfterClear_Keep(table) == table

\* What terminate() leaves in the pending-request table.
AfterClear(table) == <<>>

\* Mutant: terminate() resets the id counter with the rest of the state.
IdAfterTerminate_Reset(id) == 0

\* terminate() does not touch this.requestId.
IdAfterTerminate(id) == id

\* terminate().  worker.terminate() stops the worker and discards the
\* messages queued in both directions, so the handlers of this Worker never
\* run again: its init promise stays as it is for ever, and a call awaiting
\* it never continues (its arguments are dropped from the state).
Terminate ==
    /\ UNCHANGED pageVars
    /\ worker # 0
    /\ worker' = 0
    /\ isReady' = FALSE
    /\ pendingRequests' = AfterClear(pendingRequests)
    /\ wState' = "none"
    /\ wAsync' = <<>>
    /\ wInbox' = <<>>
    /\ wOutbox' = <<>>
    /\ live' = live \ {worker}
    /\ built' = 0
    /\ abandoned' = abandoned \cup {pendingRequests[k] : k \in DOMAIN pendingRequests}
    /\ requestId' = IdAfterTerminate(requestId)
    /\ wasmReady' = FALSE
    /\ posted' = <<>>
    /\ recvLog' = <<>>
    /\ initPromise' = "none"
    /\ calls' = [c \in Calls |-> IF calls[c].state = "awaitInit"
                                  THEN [NoCall EXCEPT !.state = "awaitInit",
                                                      !.await = calls[c].await]
                                  ELSE calls[c]]
    /\ UNCHANGED <<useWasm, nWorkers, nCalls, sentLog, settleLog>>

\* ------------------------------------------------------------- finder page
\* The finder page (finder.js) over point lists of any length.  An array is
\* known by the upload that created it (ver) and its length (len); a list of
\* combinations or midpoints by its length, the arrays its indices and scores
\* were computed on (onA, onB), its largest indices (maxA, maxB) and the
\* arrays its pointA / pointB elements were read from (ofA, ofB).
\* GeoWorkerAPI is taken by what C1, C5 and C10 established of it: a request
\* is answered from the arrays as they were when it was made, requests are
\* answered in the order they were made, and a call may also be rejected.
Abs(x) == IF x < 0 THEN 0 - x ELSE x
Min(a, b) == IF a < b THEN a ELSE b
Max(a, b) == IF a > b THEN a ELSE b

Lens == {0, SmallLen, LargeLen - 1, LargeLen, LargeLen + 1}

NoList == [n |-> 0, onA |-> 0, onB |-> 0, maxA |-> 0, maxB |-> 0, ofA |-> 0, ofB |-> 0]
NoOp == [op |-> "none", n |-> 0, m |-> 0, route |-> "none", progress |-> FALSE]

\* GeoWorkerAPI.shouldUseWorker(numA, numB)
shouldUseWorker(numA, numB) == numA * numB >= WORKER_THRESHOLD

\* Mutant: the threshold itself stays on the main thread.
useWorker_Above(totalCombos) == totalCombos > 10000

\* findCombinations / generateHeatmap: const useWorker = totalCombos >= 10000
useWorker(totalCombos) == totalCombos >= 10000

\* What findBestCombinationsSync leaves in `combinations`: every pair of the
\* current arrays.
SyncCombinations ==
    [n |-> pointsA.len * pointsB.len, onA |-> pointsA.ver, onB |-> pointsB.ver,
     maxA |-> pointsA.len - 1, maxB |-> pointsB.len - 1,
     ofA |-> pointsA.ver, ofB |-> pointsB.ver]

\* What the inline loops of generateHeatmap leave in allMidpoints.
InlineMidpoints ==
    [n |-> pointsA.len * pointsB.len, onA |-> pointsA.ver, onB |-> pointsB.ver,
     maxA |-> 0, maxB |-> 0, ofA |-> 0, ofB |-> 0]

\* The arguments of a delegated call: the arrays pointsA and pointsB refer to.
Delegated(kind) ==
    [kind |-> kind, verA |-> pointsA.ver, lenA |-> pointsA.len,
     verB |-> pointsB.ver, lenB |-> pointsB.len]

\* The largest index of a list of length len that the topN results may hold:
\* which pairs score lowest depends on the points.
TopIndexes(len) == {len - 1, (len - 1) \div 2}

\* The result of a findBestCombinations request: the topN lowest pairs.
WorkerResults(r, maxA, maxB) ==
    [n |-> Min(topNOfFinder, r.lenA * r.lenB), onA |-> r.verA, onB |-> r.verB,
     maxA |-> maxA, maxB |-> maxB, ofA |-> 0, ofB |-> 0]

\* findBestCombinationsAsync after its await: result.results.map(...) reads
\* pointsA[r.indexA] and pointsB[r.indexB] of the arrays the variables refer
\* to now.
MappedCombinations(r, results) ==
    [results EXCEPT !.ofA = pointsA.ver, !.ofB = pointsB.ver]

\* GeoCalc.getDistance(undefined, target) throws when an index is beyond the
\* array read.
MapThrows(results) == results.maxA >= pointsA.len \/ results.maxB >= pointsB.len

\* The result of a calculateAllMidpoints request.
WorkerMidpoints(r) ==
    [n |-> r.lenA * r.lenB, onA |-> r.verA, onB |-> r.verB,
     maxA |-> 0, maxB |-> 0, ofA |-> 0, ofB |-> 0]

FinderIdle ==
    /\ pointsA = [ver |-> 0, len |-> 0]
    /\ pointsB = [ver |-> 0, len |-> 0]
    /\ combinations = NoList
    /\ allMidpoints = NoList
    /\ inflight = <<>>
    /\ nUploads = 0
    /\ nOps = 0
    /\ lastOp = NoOp

\* The page when init() has run: loadInitialPoints has set both lists from
\* storage, the listeners are registered.
FinderLoaded ==
    /\ pointsA \in [ver : {0}, len : Lens]
    /\ pointsB \in [ver : {0}, len : Lens]
    /\ combinations = NoList
    /\ allMidpoints = NoList
    /\ inflight = <<>>
    /\ nUploads = 0
    /\ nOps = 0
    /\ lastOp = NoOp

\* handleFileAUpload / handleFileBUpload: the callback of DataLoader.handleFileInput.
Upload ==
    /\ nUploads < MaxUploads
    /\ nUploads' = nUploads + 1
    /\ \E len \in Lens :
          \/ pointsA' = [ver |-> nUploads + 1, len |-> len] /\ UNCHANGED pointsB
          \/ pointsB' = [ver |-> nUploads + 1, len |-> len] /\ UNCHANGED pointsA
    /\ allMidpoints' = NoList
    /\ combinations' = NoList
    /\ UNCHANGED <<inflight, nOps, lastOp, searchVars, gridVars, toolVars, apiVars, wVars, histVars>>

\* findCombinations() up to its return or its await.
FindCombinations ==
    /\ nOps < MaxOps
    /\ nOps' = nOps + 1
    /\ \E valid \in BOOLEAN :
          LET op == [op |-> "findCombinations", n |-> pointsA.len, m |-> pointsB.len,
                     route |-> "none", progress |-> FALSE]
          IN  IF ~valid \/ pointsA.len = 0 \/ pointsB.len = 0
              THEN /\ lastOp' = op
                   /\ UNCHANGED <<combinations, inflight>>
              ELSE IF useWorker(pointsA.len * pointsB.len)
              THEN /\ lastOp' = [op EXCEPT !.route = "worker", !.progress = TRUE]
                   /\ inflight' = Append(inflight, Delegated("findBestCombinations"))
                   /\ UNCHANGED combinations
              ELSE /\ lastOp' = [op EXCEPT !.route = "inline"]
                   /\ combinations' = SyncCombinations
                   /\ UNCHANGED inflight
    /\ UNCHANGED <<pointsA, pointsB, allMidpoints, nUploads, searchVars, gridVars, toolVars, apiVars, wVars, histVars>>

\* generateHeatmap() up to its return or its await (the tiles it draws are
\* not part of the state).
GenerateHeatmap ==
    /\ nOps < MaxOps
    /\ nOps' = nOps + 1
    /\ LET op == [op |-> "generateHeatmap", n |-> pointsA.len, m |-> pointsB.len,
                  route |-> "none", progress |-> FALSE]
       IN  IF pointsA.len = 0 \/ pointsB.len = 0 \/ allMidpoints.n # 0
           THEN /\ lastOp' = op
                /\ UNCHANGED <<allMidpoints, inflight>>
           ELSE IF useWorker(pointsA.len * pointsB.len)
           THEN /\ lastOp' = [op EXCEPT !.route = "worker", !.progress = TRUE]
                /\ inflight' = Append(inflight, Delegated("calculateAllMidpoints"))
                /\ UNCHANGED allMidpoints
           ELSE /\ lastOp' = [op EXCEPT !.route = "inline"]
                /\ allMidpoints' = InlineMidpoints
                /\ UNCHANGED inflight
    /\ UNCHANGED <<pointsA, pointsB, combinations, nUploads, searchVars, gridVars, toolVars, apiVars, wVars, histVars>>

\* The promise of the oldest delegated call resolves and the caller continues
\* after its await.
Resolved ==
    /\ inflight # <<>>
    /\ inflight' = Tail(inflight)
    /\ LET r == Head(inflight)
       IN  IF r.kind = "findBestCombinations"
           THEN /\ \E maxA \in TopIndexes(r.lenA), maxB \in TopIndexes(r.lenB) :
                      LET results == WorkerResults(r, maxA, maxB)
                      IN  /\ (maxA + 1) * (maxB + 1) >= results.n
                          /\ combinations' = IF MapThrows(results) THEN combinations
                                             ELSE MappedCombinations(r, results)
                /\ UNCHANGED allMidpoints
           ELSE /\ allMidpoints' = WorkerMidpoints(r)
                /\ UNCHANGED combinations
    /\ UNCHANGED <<pointsA, pointsB, nUploads, nOps, lastOp, searchVars, gridVars, toolVars, apiVars, wVars, histVars>>

\* The promise of the oldest delegated call rejects: the caller's finally
\* block hides the progress display and the error propagates.
Rejected ==
    /\ inflight # <<>>
    /\ inflight' = Tail(inflight)
    /\ UNCHANGED <<pointsA, pointsB, combinations, allMidpoints, nUploads, nOps, lastOp,
                   searchVars, gridVars, toolVars, apiVars, wVars, histVars>>

\* ------------------------------------------------------ combination search
\* The two searches (findBestCombinationsSync of finder.js and
\* findBestCombinationsJS of the worker) on concrete point lists.  A point is
\* a position on a line and so is the target; the score of a pair is the
\* distance from the pair's midpoint to the target (doubled, to stay in the
\* integers), which gives equal scores to different pairs as great-circle
\* distances do.
Coords == 0..MaxCoord
PointLists == UNION {[1..n -> Coords] : n \in 0..MaxLen}
TopNs == (0 - MaxLen)..(MaxLen * MaxLen + 1)

\* calculateCombinationScore(pointA, pointB, target).score
calculateCombinationScore(pointA, pointB, target) == Abs(pointA + pointB - 2 * target)

\* The worker's score of a pair: haversineDistance(geodesicMidpoint(A, B), target)
haversineOfMidpoint(pointA, pointB, target) == Abs(pointA + pointB - 2 * target)

\* Mutant: the inner loop starts at j = i (pairs taken without repetition).
AllPairs_UpperTriangle(ptsA, ptsB) ==
    SelectSeq([k \in 1..(Len(ptsA) * Len(ptsB)) |->
                  [indexA |-> (k - 1) \div Len(ptsB), indexB |-> (k - 1) % Len(ptsB)]],
              LAMBDA p : p.indexB >= p.indexA)

\* The index pairs (i, j), 0-based, in the order the nested loops visit them.
AllPairs(ptsA, ptsB) ==
    [k \in 1..(Len(ptsA) * Len(ptsB)) |->
        [indexA |-> (k - 1) \div Len(ptsB), indexB |-> (k - 1) % Len(ptsB)]]

\* Mutant: an element is placed before the elements of equal score.
InsertByScore_BeforeEqual(sorted, x) ==
    LET p == Cardinality({i \in 1..Len(sorted) : sorted[i].score < x.score})
    IN  SubSeq(sorted, 1, p) \o <<x>> \o SubSeq(sorted, p + 1, Len(sorted))

\* Array.prototype.sort((a, b) => a.score - b.score) is stable (ECMAScript
\* 2019): an element goes after every element that does not compare greater.
InsertByScore(sorted, x) ==
    LET p == Cardinality({i \in 1..Len(sorted) : sorted[i].score <= x.score})
    IN  SubSeq(sorted, 1, p) \o <<x>> \o SubSeq(sorted, p + 1, Len(sorted))

RECURSIVE SortByScore(_)
SortByScore(list) ==
    IF list = <<>> THEN <<>>
    ELSE InsertByScore(SortByScore(SubSeq(list, 1, Len(list) - 1)), list[Len(list)])

\* Array.prototype.slice(0, end): a negative end counts from the end of the array.
Slice(list, end) ==
    LET final == IF end < 0 THEN Max(Len(list) + end, 0) ELSE Min(end, Len(list))
    IN  SubSeq(list, 1, final)

\* findBestCombinationsSync(target): the combinations it stores and returns.
findBestCombinationsSync(ptsA, ptsB, target) ==
    LET pairs == AllPairs(ptsA, ptsB)
    IN  SortByScore([k \in 1..Len(pairs) |->
            [pointA |-> ptsA[pairs[k].indexA + 1],
             pointB |-> ptsB[pairs[k].indexB + 1],
             indexA |-> pairs[k].indexA,
             indexB |-> pairs[k].indexB,
             score |-> calculateCombinationScore(ptsA[pairs[k].indexA + 1],
                                                 ptsB[pairs[k].indexB + 1], target)]])

\* Mutant: the two indices are stored the wrong way round.
JSResults_SwappedIndex(ptsA, ptsB, target) ==
    LET pairs == AllPairs(ptsA, ptsB)
    IN  [k \in 1..Len(pairs) |->
            [indexA |-> pairs[k].indexB,
             indexB |-> pairs[k].indexA,
             score |-> haversineOfMidpoint(ptsA[pairs[k].indexA + 1],
                                           ptsB[pairs[k].indexB + 1], target)]]

\* findBestCombinationsJS: the array `results` when the loops are done.
JSResults(ptsA, ptsB, target) ==
    LET pairs == AllPairs(ptsA, ptsB)
    IN  [k \in 1..Len(pairs) |->
            [indexA |-> pairs[k].indexA,
             indexB |-> pairs[k].indexB,
             score |-> haversineOfMidpoint(ptsA[pairs[k].indexA + 1],
                                           ptsB[pairs[k].indexB + 1], target)]]

\* findBestCombinationsJS(pointsA, pointsB, targetLat, targetLon, topN, ...)
findBestCombinationsJS(ptsA, ptsB, target, topN) ==
    Slice(SortByScore(JSResults(ptsA, ptsB, target)), topN)

\* findBestCombinationsWASM: the kernel find_best_combinations is compiled
\* code; it is taken to return what the specification of the search asks
\* for: the topN lowest scores, ascending, equal scores in encounter order,
\* nothing for topN <= 0.
findBestCombinationsWASM(ptsA, ptsB, target, topN) ==
    LET all == SortByScore(JSResults(ptsA, ptsB, target))
    IN  IF topN <= 0 THEN <<>> ELSE SubSeq(all, 1, Min(topN, Len(all)))

\* The 'findBestCombinations' branch of self.onmessage on valid points: the
\* type of the terminal message it posts and the results it carries.
WorkerAnswer(ptsA, ptsB, target, topN, wasm) ==
    LET msg == RequestMsg("findBestCombinations", 1, Len(ptsA), Len(ptsB), FALSE)
        type == TerminalMsg(msg, wasm).type
    IN  [type |-> type,
         results |-> IF type = "error" THEN <<>>
                     ELSE IF wasm THEN findBestCombinationsWASM(ptsA, ptsB, target, topN)
                     ELSE findBestCombinationsJS(ptsA, ptsB, target, topN)]

\* Mutant: the combinations are built with unshift.
findBestCombinationsAsync_Reversed(ptsA, ptsB, results) ==
    [k \in 1..Len(results) |->
        LET r == results[Len(results) + 1 - k]
        IN  [pointA |-> ptsA[r.indexA + 1], pointB |-> ptsB[r.indexB + 1],
             indexA |-> r.indexA, indexB |-> r.indexB, score |-> r.score]]

\* findBestCombinationsAsync: result.results.map(...) over the module's
\* pointsA and pointsB.
findBestCombinationsAsync(ptsA, ptsB, results) ==
    [k \in 1..Len(results) |->
        [pointA |-> ptsA[results[k].indexA + 1],
         pointB |-> ptsB[results[k].indexB + 1],
         indexA |-> results[k].indexA,
         indexB |-> results[k].indexB,
         score |-> results[k].score]]

\* findCombinations(): the list `combinations` holds when it is done (the
\* delegated route through the JS kernel).
findCombinations(ptsA, ptsB, target, stored) ==
    IF Len(ptsA) = 0 \/ Len(ptsB) = 0 THEN stored
    ELSE IF useWorker(Len(ptsA) * Len(ptsB))
         THEN findBestCombinationsAsync(ptsA, ptsB,
                  findBestCombinationsJS(ptsA, ptsB, target, topNOfFinder))
    ELSE findBestCombinationsSync(ptsA, ptsB, target)

NoArgs == [pointsA |-> <<>>, pointsB |-> <<>>, target |-> 0]
NotRun == [fn |-> "none", topN |-> 0, wasm |-> FALSE]
NoReturn == [type |-> "none", results |-> <<>>]

SearchIdle ==
    /\ args = NoArgs
    /\ ran = NotRun
    /\ returned = NoReturn

\* Any two valid point lists and a target; `combinations` is empty, as the
\* upload handlers leave it.
SearchArgs ==
    /\ args \in [pointsA : PointLists, pointsB : PointLists, target : Coords]
    /\ ran = NotRun
    /\ returned = NoReturn

RunSync ==
    /\ ran.fn = "none"
    /\ ran' = [fn |-> "findBestCombinationsSync", topN |-> 0, wasm |-> FALSE]
    /\ returned' = [type |-> "return",
                    results |-> findBestCombinationsSync(args.pointsA, args.pointsB, args.target)]
    /\ UNCHANGED <<args, finderVars, gridVars, toolVars, apiVars, wVars, histVars>>

RunJS ==
    /\ ran.fn = "none"
    /\ \E topN \in TopNs :
          /\ ran' = [fn |-> "findBestCombinationsJS", topN |-> topN, wasm |-> FALSE]
          /\ returned' = [type |-> "return",
                          results |-> findBestCombinationsJS(args.pointsA, args.pointsB,
                                                             args.target, topN)]
    /\ UNCHANGED <<args, finderVars, gridVars, toolVars, apiVars, wVars, histVars>>

RunWorker ==
    /\ ran.fn = "none"
    /\ \E topN \in {0, MaxLen * MaxLen} :
          /\ ran' = [fn |-> "onmessage", topN |-> topN, wasm |-> FALSE]
          /\ returned' = WorkerAnswer(args.pointsA, args.pointsB, args.target, topN, FALSE)
    /\ UNCHANGED <<args, finderVars, gridVars, toolVars, apiVars, wVars, histVars>>

RunAsync ==
    /\ ran.fn = "none"
    /\ \E wasm \in BOOLEAN :
          LET answer == WorkerAnswer(args.pointsA, args.pointsB, args.target,
                                     topNOfFinder, wasm)
          IN  /\ answer.type = "result"
              /\ ran' = [fn |-> "findBestCombinationsAsync", topN |-> topNOfFinder,
                         wasm |-> wasm]
              /\ returned' = [type |-> "return",
                              results |-> findBestCombinationsAsync(args.pointsA, args.pointsB,
                                                                    answer.results)]
    /\ UNCHANGED <<args, finderVars, gridVars, toolVars, apiVars, wVars, histVars>>

RunFindCombinations ==
    /\ ran.fn = "none"
    /\ ran' = [fn |-> "findCombinations", topN |-> 0, wasm |-> FALSE]
    /\ returned' = [type |-> "stored",
                    results |-> findCombinations(args.pointsA, args.pointsB, args.target, <<>>)]
    /\ UNCHANGED <<args, finderVars, gridVars, toolVars, apiVars, wVars, histVars>>

\* --------------------------------------------------------------- grid query
\* findBestCombinations(target, maxResults) of cities.js.  The grid has two
\* cells with a file each; a cell is known by the first search radius whose
\* bounding box (getNearbyGridKeys) contains it, a file by the scores of its
\* pairs against the target.  The fetch of a file that is not cached may fail.
searchRadii == <<500, 1000, 2000, 5000, 10000, 20000>>
Cells == {"near", "far"}
GridFiles == UNION {[1..n -> 0..1] : n \in 0..MaxPairs}
Budgets == 1..(MaxPairs + 1)

NoQuery == [reach |-> [c \in Cells |-> 1], files |-> [c \in Cells |-> <<>>], maxResults |-> 1]
NoScan == [phase |-> "idle", next |-> 1, allCandidates |-> <<>>, failed |-> {}]

\* getNearbyGridKeys(target.lat, target.lng, searchRadii[i]): the cells of
\* the grid index inside the bounding box of the radius.
getNearbyGridKeys(i) == SelectSeq(<<"near", "far">>, LAMBDA c : query.reach[c] <= i)

\* The pairs of a grid file with their score against the target.
Scored(key) ==
    [k \in 1..Len(query.files[key]) |-> [cell |-> key, k |-> k, score |-> query.files[key][k]]]

\* loadGridFile(key) when the fetch of the keys in `bad` fails: the cached or
\* fetched pairs, or [] from the catch block.
loadGridFile(key, bad) == IF key \in bad THEN <<>> ELSE Scored(key)

\* for (const pairs of gridData) for (const pair of pairs) allCandidates.push(pair)
RECURSIVE Gathered(_, _)
Gathered(keys, bad) ==
    IF keys = <<>> THEN <<>>
    ELSE loadGridFile(keys[1], bad) \o Gathered(SubSeq(keys, 2, Len(keys)), bad)

\* Mutant: the expansion goes on when the candidates just meet the budget.
EnoughCandidates_Above(count, maxResults) == count > maxResults

\* if (allCandidates.length >= maxResults) break
EnoughCandidates(count, maxResults) == count >= maxResults

GridIdle ==
    /\ query = NoQuery
    /\ scan = NoScan
    /\ gridCache = {}
    /\ tried = <<>>
    /\ loads = <<>>
    /\ cityCombinations = <<>>

\* A query on any grid: the far cell is reached no earlier than the near one
\* (or by no radius at all).
GridQuery ==
    /\ query \in [reach : {r \in [Cells -> 1..(Len(searchRadii) + 1)] : r["near"] <= r["far"]},
                  files : [Cells -> GridFiles],
                  maxResults : Budgets]
    /\ scan = [NoScan EXCEPT !.phase = "searching"]
    /\ gridCache = {}
    /\ tried = <<>>
    /\ loads = <<>>
    /\ cityCombinations = <<>>

\* One iteration of `for (const radius of searchRadii)`, up to the end of its
\* await of the grid files; the fetches of the files in `bad` fail.
TryRadius ==
    /\ scan.phase = "searching"
    /\ LET i == scan.next
           nearbyKeys == getNearbyGridKeys(i)
           asked == {nearbyKeys[k] : k \in 1..Len(nearbyKeys)}
           last == i = Len(searchRadii)
       IN  IF nearbyKeys = <<>>
           THEN /\ tried' = Append(tried, [radius |-> searchRadii[i],
                                            count |-> Len(scan.allCandidates)])
                /\ scan' = [scan EXCEPT !.next = i + 1,
                                        !.phase = IF last THEN "scoring" ELSE "searching"]
                /\ UNCHANGED <<loads, gridCache>>
           ELSE \E bad \in SUBSET (asked \ gridCache) :
                LET found == Gathered(nearbyKeys, bad)
                IN  /\ tried' = Append(tried, [radius |-> searchRadii[i], count |-> Len(found)])
                    /\ loads' = loads \o [k \in 1..Len(nearbyKeys) |->
                                             [radius |-> searchRadii[i], key |-> nearbyKeys[k]]]
                    /\ gridCache' = gridCache \cup (asked \ bad)
                    /\ scan' = [phase |-> IF EnoughCandidates(Len(found), query.maxResults) \/ last
                                          THEN "scoring" ELSE "searching",
                                next |-> i + 1,
                                allCandidates |-> found,
                                failed |-> scan.failed \cup bad]
    /\ UNCHANGED <<query, cityCombinations, searchVars, finderVars, toolVars, apiVars, wVars, histVars>>

\* After the loop: score, sort, slice.
ScoreAndSort ==
    /\ scan.phase = "scoring"
    /\ cityCombinations' = Slice(SortByScore(scan.allCandidates), query.maxResults)
    /\ scan' = [scan EXCEPT !.phase = "done"]
    /\ UNCHANGED <<query, gridCache, tried, loads, searchVars, finderVars, toolVars, apiVars, wVars, histVars>>

\* ----------------------------------------------------------- specification
InitOffload ==
    /\ worker = 0
    /\ isReady = FALSE
    /\ useWasm = FALSE
    /\ requestId = 0
    /\ pendingRequests = <<>>
    /\ initPromise = "none"
    /\ nWorkers = 0
    /\ calls = [c \in Calls |-> NoCall]
    /\ nCalls = 0
    /\ wState = "none"
    /\ wasmReady = FALSE
    /\ wAsync = <<>>
    /\ wInbox = <<>>
    /\ wOutbox = <<>>
    /\ live = {}
    /\ built = 0
    /\ posted = <<>>
    /\ recvLog = <<>>
    /\ sentLog = <<>>
    /\ settleLog = <<>>
    /\ abandoned = {}

Init ==
    /\ InitOffload
    /\ SearchIdle
    /\ FinderIdle
    /\ GridIdle
    /\ ToolsIdle

Next ==
    \/ CallInit
    \/ CallRequest
    \/ MainDeliver
    \/ Terminate
    \/ WorkerStart
    \/ WorkerLoadFail
    \/ WorkerHandle
    \/ WorkerAsyncDone

Spec == Init /\ [][Next]_vars


\* The same dispatcher and worker, one Worker for the whole behaviour and
\* requests over point lists of every length up to MaxPts.
CallRequestAnySize ==
    /\ nCalls < MaxSizedCalls
    /\ \E kind \in RequestKinds, n \in 0..MaxPts, m \in 0..MaxPts, bad \in BOOLEAN :
          Request(kind, n, m, bad, FALSE)

NextSizes ==
    \/ CallRequestAnySize
    \/ MainDeliver
    \/ WorkerStart
    \/ WorkerHandle
    \/ WorkerAsyncDone

SizesSpec == Init /\ [][NextSizes]_vars


\* The dispatcher and the worker when terminate() is never called, `new
\* Worker` does not throw and the worker script loads.  Both event loops keep
\* running: a queued message is eventually delivered and handled, and an
\* awaited operation of the worker eventually completes.
CallInitOk == nCalls < MaxLiveCalls /\ Initialize(FALSE)

CallRequestOk ==
    /\ nCalls < MaxLiveCalls
    /\ \E kind \in RequestKinds, bad \in BOOLEAN : Request(kind, 1, MaxLivePts, bad, FALSE)

NextLive ==
    \/ CallInitOk
    \/ CallRequestOk
    \/ MainDeliver
    \/ WorkerStart
    \/ WorkerHandle
    \/ WorkerAsyncDone

LiveSpec ==
    /\ Init
    /\ [][NextLive]_vars
    /\ WF_vars(MainDeliver)
    /\ WF_vars(WorkerStart)
    /\ WF_vars(WorkerHandle)
    /\ WF_vars(WorkerAsyncDone)


\* One search on any two point lists of length up to MaxLen.
InitSearch ==
    /\ InitOffload
    /\ SearchArgs
    /\ FinderIdle
    /\ GridIdle
    /\ ToolsIdle

NextSearch ==
    \/ RunSync
    \/ RunJS
    \/ RunWorker
    \/ RunAsync
    \/ RunFindCombinations

SearchSpec == InitSearch /\ [][NextSearch]_vars


\* The finder page: uploads, find requests, heatmap requests and the
\* settling of delegated calls, in every order.
InitFinder ==
    /\ InitOffload
    /\ SearchIdle
    /\ FinderLoaded
    /\ GridIdle
    /\ ToolsIdle

NextFinder ==
    \/ Upload
    \/ FindCombinations
    \/ GenerateHeatmap
    \/ Resolved
    \/ Rejected

FinderSpec == InitFinder /\ [][NextFinder]_vars


\* One grid query on any grid of two cells.
InitGrid ==
    /\ InitOffload
    /\ SearchIdle
    /\ FinderIdle
    /\ GridQuery
    /\ ToolsIdle

NextGrid ==
    \/ TryRadius
    \/ ScoreAndSort

GridSpec == InitGrid /\ [][NextGrid]_vars


\* ------------------------------------------------------------------ claims
Range(f) == {f[x] : x \in DOMAIN f}
Last(s) == s[Len(s)]
Pos(s, x) == CHOOSE i \in 1..Len(s) : s[i] = x

\* Indices of the terminal messages the current worker posted for request id.
TerminalsOf(id) == {i \in 1..Len(posted) : posted[i].id = id /\ posted[i].type \in Terminal}

\* C1: for every request the worker has handled it has posted exactly one
\* terminal message ('result' or 'error') with the request's id, nothing with
\* that id after it, and no terminal message for anything it did not receive.
C1_ExactlyOneTerminal ==
    /\ \A k \in 1..Len(recvLog) :
          /\ Cardinality(TerminalsOf(recvLog[k])) = 1
          /\ \A i \in TerminalsOf(recvLog[k]) :
                \A j \in (i + 1)..Len(posted) : posted[j].id # recvLog[k]
    /\ \A i \in 1..Len(posted) :
          posted[i].type \in Terminal => posted[i].id \in Range(recvLog)

\* A worker has answered one request with 'error' after a progress message
\* and another with 'result'.
C1_Witness ==
    /\ Len(recvLog) >= 2
    /\ \E i \in 2..Len(posted) :
          /\ posted[i].type = "error"
          /\ posted[i - 1].type = "progress" /\ posted[i - 1].id = posted[i].id
    /\ \E j \in 1..Len(posted) : posted[j].type = "result"

\* C2: the progress messages of one request carry percentages in 0..100 that
\* never decrease, and nothing but progress messages of that request precedes
\* them under its id (so all of them precede its terminal message).
C2_ProgressOrdered ==
    \A i \in 1..Len(posted) :
        posted[i].type = "progress" =>
            /\ posted[i].progress \in 0..100
            /\ \A j \in 1..(i - 1) :
                  posted[j].id = posted[i].id =>
                      /\ posted[j].type = "progress"
                      /\ posted[j].progress <= posted[i].progress

\* The JS loop posted at least three increasing percentages and then the result.
C2_Witness ==
    \E i \in 1..Len(posted) :
        /\ i + 3 <= Len(posted)
        /\ \A k \in 0..2 : posted[i + k].type = "progress" /\ posted[i + k].id = posted[i].id
        /\ posted[i].progress > 0
        /\ posted[i].progress < posted[i + 1].progress
        /\ posted[i + 1].progress < posted[i + 2].progress
        /\ posted[i + 3].type = "result" /\ posted[i + 3].id = posted[i].id

\* C3 (as claimed): a request is in the worker's queue only when the 'ready'
\* message of that worker has been received, i.e. its init promise is resolved.
C3_RequestsWaitForReady ==
    \A i \in 1..Len(wInbox) :
        wInbox[i].type \in RequestKinds => (worker # 0 /\ initPromise = "resolved")

\* C4: at most one Worker is alive, it is the one this.worker refers to, and
\* exactly one Worker has been constructed since the last terminate() whenever
\* the dispatcher holds a worker (none otherwise).
C4_SingleWorker ==
    /\ Cardinality(live) <= 1
    /\ live = (IF worker = 0 THEN {} ELSE {worker})
    /\ built = (IF worker = 0 THEN 0 ELSE 1)

\* Three API calls were made on the first Worker and it served two requests.
C4_Witness ==
    /\ worker = 1
    /\ nCalls >= 3
    /\ Len(settleLog) >= 2

\* C5: request ids come from one strictly increasing counter and are never
\* reused (the log of sent ids spans all Workers); each resolve()/reject()
\* made for a terminal message with id k is made on the promise of the call
\* registered under k, at most once per id, and k is then no longer in the
\* pending-request table.
C5_IdsCorrelate ==
    /\ \A i, j \in 1..Len(sentLog) : i < j => sentLog[i] < sentLog[j]
    /\ \A i \in 1..Len(sentLog) : sentLog[i] <= requestId
    /\ \A c, d \in Calls : (c # d /\ calls[c].id # 0) => calls[c].id # calls[d].id
    /\ \A k \in DOMAIN pendingRequests :
          calls[pendingRequests[k]].id = k /\ calls[pendingRequests[k]].state = "posted"
    /\ \A i \in 1..Len(settleLog) :
          /\ calls[settleLog[i].call].id = settleLog[i].id
          /\ calls[settleLog[i].call].state =
                (IF settleLog[i].type = "result" THEN "resolved" ELSE "rejected")
          /\ settleLog[i].id \notin DOMAIN pendingRequests
          /\ \A j \in 1..Len(settleLog) : j # i => settleLog[j].id # settleLog[i].id
    /\ \A c \in Calls :
          (calls[c].id # 0 /\ calls[c].state \in {"resolved", "rejected"}) =>
              \E i \in 1..Len(settleLog) : settleLog[i].call = c

\* A request was abandoned by terminate(), and a request sent to the next
\* Worker under a larger id has been settled.
C5_Witness ==
    /\ abandoned # {}
    /\ worker = 2
    /\ \E i \in 1..Len(settleLog) : \A c \in abandoned : settleLog[i].id > calls[c].id

\* C6: the step that delivers an 'error' message rejects the promise
\* registered under its id, removes that entry only, and changes no other call.
C6_ErrorIsolated ==
    [][(Len(settleLog') = Len(settleLog) + 1 /\ Last(settleLog').type = "error") =>
          LET e == Last(settleLog')
          IN  /\ calls'[e.call].state = "rejected"
              /\ \A c \in Calls \ {e.call} : calls'[c] = calls[c]
              /\ DOMAIN pendingRequests' = DOMAIN pendingRequests \ {e.id}
              /\ \A k \in DOMAIN pendingRequests' : pendingRequests'[k] = pendingRequests[k]
              /\ worker' = worker]_vars

\* A request was rejected by an 'error' and two requests with larger ids were
\* resolved by their own 'result' afterwards.
C6_Witness ==
    /\ Len(settleLog) = 3
    /\ settleLog[1].type = "error"
    /\ settleLog[2].type = "result" /\ settleLog[2].id > settleLog[1].id
    /\ settleLog[3].type = "result" /\ settleLog[3].id > settleLog[2].id

\* C7: without a worker the pending-request table is empty and no Worker is
\* alive, and a call whose request was pending when terminate() ran has a
\* promise that is still pending, is in no entry of the table and was never
\* passed to resolve()/reject().
C7_TerminateAbandons ==
    /\ worker = 0 => (DOMAIN pendingRequests = {} /\ live = {} /\ wState = "none")
    /\ \A c \in abandoned :
          /\ calls[c].state = "posted"
          /\ c \notin Range(pendingRequests)
          /\ \A i \in 1..Len(settleLog) : settleLog[i].call # c

\* After a terminate() that abandoned a request, a new Worker was built and a
\* later request was settled.
C7_Witness ==
    /\ abandoned # {}
    /\ worker # 0
    /\ isReady
    /\ \E i \in 1..Len(settleLog) : \E c \in abandoned : settleLog[i].id > calls[c].id

\* C8 (as claimed): once the init promise of a Worker has been rejected the
\* dispatcher holds no reference to that Worker.
C8_NoWorkerAfterFailedInit ==
    initPromise = "rejected" => worker = 0

\* C9: every request call (awaiting init or posted) is eventually settled by
\* a terminal message for its id.
C9_EventuallySettled ==
    \A c \in 1..MaxLiveCalls :
        ((calls[c].state = "awaitInit" /\ calls[c].kind \in RequestKinds)
            \/ calls[c].state = "posted")
        ~> (calls[c].state \in {"resolved", "rejected"} /\ calls[c].id # 0
            /\ \E i \in 1..Len(settleLog) : settleLog[i].call = c)

\* Two requests were made; one was rejected by an 'error' and one was
\* resolved by a 'result' computed on the WASM path.
C9_Witness ==
    /\ requestId = 2
    /\ \E c, d \in Calls : calls[c].state = "resolved" /\ calls[d].state = "rejected"
    /\ \E i \in 1..Len(posted) : posted[i].type = "progress" /\ posted[i].progress = 0
    /\ Len(settleLog) = 2

\* C10: the worker posts the messages of its requests grouped by request, in
\* the order in which the requests arrived, which is the order in which they
\* were sent; the dispatcher settles promises in the order of sending.
C10_ArrivalOrder ==
    LET about == SelectSeq(posted, LAMBDA x : x.id # 0)
    IN  /\ \A i \in 1..Len(about) : about[i].id \in Range(recvLog)
        /\ \A i \in 1..(Len(about) - 1) :
              Pos(recvLog, about[i].id) <= Pos(recvLog, about[i + 1].id)
        /\ \A i \in 1..(Len(recvLog) - 1) :
              Pos(sentLog, recvLog[i]) < Pos(sentLog, recvLog[i + 1])
        /\ \A i \in 1..(Len(settleLog) - 1) :
              Pos(sentLog, settleLog[i].id) < Pos(sentLog, settleLog[i + 1].id)

\* Two requests were queued at the worker together and both were settled.
C10_Witness ==
    /\ Len(recvLog) >= 2
    /\ Len(settleLog) >= 2
    /\ \E i \in 1..Len(posted) : posted[i].type = "progress" /\ posted[i].id = recvLog[2]

\* ------------------------------------------- claims on the combination search
Searched == ran.fn \in {"findBestCombinationsSync", "findBestCombinationsJS"}
NumPairs == Len(args.pointsA) * Len(args.pointsB)
CrossProduct == (0..(Len(args.pointsA) - 1)) \X (0..(Len(args.pointsB) - 1))
IndexPairs(results) == [k \in 1..Len(results) |-> <<results[k].indexA, results[k].indexB>>]
First(results, n) == SubSeq(results, 1, Min(n, Len(results)))
ScoreOfPair(ptsA, ptsB, pair) ==
    Abs(ptsA[pair[1] + 1] + ptsB[pair[2] + 1] - 2 * args.target)
\* pair p is visited before pair q by the nested loops
RowMajorBefore(p, q) == p[1] < q[1] \/ (p[1] = q[1] /\ p[2] < q[2])
Orderings(n) == {f \in [1..n -> 1..n] : \A i, j \in 1..n : f[i] = f[j] => i = j}
Permuted(list, f) == [k \in 1..Len(list) |-> list[f[k]]]
Scores == 0..(2 * MaxCoord)
SameScores(r1, r2) ==
    \A v \in Scores : Cardinality({k \in 1..Len(r1) : r1[k].score = v})
                      = Cardinality({k \in 1..Len(r2) : r2[k].score = v})
\* what the function that ran returns on other point lists
Rerun(ptsA, ptsB) ==
    IF ran.fn = "findBestCombinationsSync"
    THEN findBestCombinationsSync(ptsA, ptsB, args.target)
    ELSE findBestCombinationsJS(ptsA, ptsB, args.target, ran.topN)

\* C12: with topN >= n*m (the inline search has no topN), the search returns
\* n*m results whose index pairs are exactly the pairs of the cross product,
\* each once, in ascending order of score.
C12_AllPairsSorted ==
    (Searched /\ (ran.fn = "findBestCombinationsJS" => ran.topN >= NumPairs)) =>
        /\ Len(returned.results) = NumPairs
        /\ {IndexPairs(returned.results)[k] : k \in 1..Len(returned.results)} = CrossProduct
        /\ \A k \in 1..(Len(returned.results) - 1) :
              returned.results[k].score <= returned.results[k + 1].score

\* The worker's search returned all pairs of two lists of the largest length,
\* with topN above their number and with different scores among them.
C12_Witness ==
    /\ ran.fn = "findBestCombinationsJS"
    /\ ran.topN > NumPairs
    /\ Len(returned.results) = MaxLen * MaxLen
    /\ returned.results[1].score < returned.results[Len(returned.results)].score

\* C13: for every topN <= 0 the combination search returns an empty result.
C13_NothingForNoBudget ==
    (ran.fn = "findBestCombinationsJS" /\ ran.topN <= 0) => returned.results = <<>>

C15_TiesInEncounterOrder ==
    Searched =>
        LET pairs == IndexPairs(returned.results)
        IN  /\ \A k \in 1..(Len(pairs) - 1) :
                  \/ returned.results[k].score < returned.results[k + 1].score
                  \/ /\ returned.results[k].score = returned.results[k + 1].score
                     /\ RowMajorBefore(pairs[k], pairs[k + 1])
            /\ \A q \in CrossProduct \ {pairs[k] : k \in 1..Len(pairs)} :
                  \A k \in 1..Len(pairs) :
                      \/ returned.results[k].score < ScoreOfPair(args.pointsA, args.pointsB, q)
                      \/ /\ returned.results[k].score
                              = ScoreOfPair(args.pointsA, args.pointsB, q)
                         /\ RowMajorBefore(pairs[k], q)

\* topN cut the result between two pairs of the same score.
C15_Witness ==
    /\ ran.fn = "findBestCombinationsJS"
    /\ ran.topN > 0
    /\ Len(returned.results) = ran.topN
    /\ \E q \in CrossProduct \ {IndexPairs(returned.results)[k] : k \in 1..Len(returned.results)} :
          ScoreOfPair(args.pointsA, args.pointsB, q)
              = returned.results[Len(returned.results)].score

\* C16: on any permutation of pointsA and any permutation of pointsB the
\* search returns the same scores with the same multiplicities, and each
\* result's indexA and indexB are positions in the permuted lists of two
\* points that have the result's score.
C16_PermutationInvariant ==
    Searched =>
        \A f \in Orderings(Len(args.pointsA)), g \in Orderings(Len(args.pointsB)) :
            LET permA == Permuted(args.pointsA, f)
                permB == Permuted(args.pointsB, g)
                again == Rerun(permA, permB)
            IN  /\ SameScores(again, returned.results)
                /\ \A k \in 1..Len(again) :
                      /\ again[k].indexA < Len(permA)
                      /\ again[k].indexB < Len(permB)
                      /\ again[k].score
                            = ScoreOfPair(permA, permB, <<again[k].indexA, again[k].indexB>>)

\* A search with a cut-off ran on lists of two different points each.
C16_Witness ==
    /\ ran.fn = "findBestCombinationsJS"
    /\ ran.topN = 2
    /\ Len(args.pointsA) = 2 /\ args.pointsA[1] # args.pointsA[2]
    /\ Len(args.pointsB) = 2 /\ args.pointsB[1] # args.pointsB[2]
    /\ Len(returned.results) = 2

C11_RouteFollowsThreshold ==
    /\ \A n \in Lens, m \in Lens : shouldUseWorker(n, m) <=> n * m >= 10000
    /\ lastOp.route = "worker" => shouldUseWorker(lastOp.n, lastOp.m)
    /\ lastOp.route = "inline" => (~shouldUseWorker(lastOp.n, lastOp.m) /\ ~lastOp.progress)

\* A call was delegated for lists whose number of pairs is exactly the
\* threshold, after another call on shorter lists was computed inline.
C11_Witness ==
    /\ lastOp.route = "worker"
    /\ lastOp.n * lastOp.m = WORKER_THRESHOLD
    /\ nOps = 2
    /\ (combinations.n > 0 \/ allMidpoints.n > 0)

\* C18: no point set is replaced while a search against it is outstanding,
\* and every stored combination has indexA < |pointsA|, indexB < |pointsB|
\* and its pointA / pointB from the arrays the search was computed on.
C18_SearchSeesItsOwnLists ==
    /\ \A i \in 1..Len(inflight) :
          inflight[i].kind = "findBestCombinations" =>
              (inflight[i].verA = pointsA.ver /\ inflight[i].verB = pointsB.ver)
    /\ combinations.n > 0 =>
          /\ combinations.maxA < pointsA.len
          /\ combinations.maxB < pointsB.len
          /\ combinations.ofA = combinations.onA
          /\ combinations.ofB = combinations.onB

\* C19: allMidpoints is empty or the enumeration of the current pointsA x pointsB.
C19_MidpointsOfCurrentLists ==
    allMidpoints.n # 0 =>
        /\ allMidpoints.onA = pointsA.ver
        /\ allMidpoints.onB = pointsB.ver
        /\ allMidpoints.n = pointsA.len * pointsB.len


\* The place of a radius in searchRadii.
RadiusIndex(radius) == CHOOSE i \in 1..Len(searchRadii) : searchRadii[i] = radius

\* C20: the grid query tries the radii 500, 1000, 2000, 5000, 10000, 20000 in
\* that order; once a radius has given at least maxResults candidates no
\* grid file is loaded for any later radius; and the finished query returns
\* at most maxResults results in ascending order of score.
C20_RadiiInOrderUntilBudget ==
    /\ Len(tried) <= Len(searchRadii)
    /\ \A i \in 1..Len(tried) :
           tried[i].radius = <<500, 1000, 2000, 5000, 10000, 20000>>[i]
    /\ \A i \in 1..Len(tried), j \in 1..Len(loads) :
           tried[i].count >= query.maxResults => RadiusIndex(loads[j].radius) <= i
    /\ \A j \in 1..Len(loads) : RadiusIndex(loads[j].radius) <= Len(tried)
    /\ scan.phase = "done" =>
           /\ Len(cityCombinations) <= query.maxResults
           /\ \A k \in 1..(Len(cityCombinations) - 1) :
                  cityCombinations[k].score <= cityCombinations[k + 1].score

\* A finished query that stopped at the second radius with exactly the
\* requested number of candidates, although a later radius reaches another
\* cell with pairs, and that cut its sorted result down to the budget.
C20_Witness ==
    /\ scan.phase = "done"
    /\ Len(tried) = 2
    /\ tried[1].count < query.maxResults
    /\ tried[2].count = query.maxResults
    /\ query.reach["far"] = 3
    /\ query.files["far"] # <<>>
    /\ loads = <<[radius |-> 1000, key |-> "near"]>>
    /\ Len(cityCombinations) = 2
    /\ cityCombinations[1].score < cityCombinations[2].score
    /\ cityCombinations[1].k = 2


\* ------------------------------------------------------------ the cell grid
\* Latitudes and longitudes are integers in units of 0.00005 degree, half
\* of the step the stored midpoints are rounded to.
UnitsPerDegree == 20000
Deg(d) == d * UnitsPerDegree

\* Math.round(x * 10000) / 10000: the nearest multiple of 0.0001 degree,
\* halves upwards.
Round4(x) == ((x + 1) \div 2) * 2

Key(latBucket, lngBucket) == [latB |-> latBucket, lngB |-> lngBucket]

\* Mutant: the buckets of the key are exchanged.
getGridKey_Swapped(lat, lng) ==
    Key((lng + Deg(180)) \div Deg(GRID_SIZE), (lat + Deg(90)) \div Deg(GRID_SIZE))

\* getGridKey(lat, lng)
getGridKey(lat, lng) ==
    Key((lat + Deg(90)) \div Deg(GRID_SIZE), (lng + Deg(180)) \div Deg(GRID_SIZE))

\* Points a midpoint can fall on: on the equator at longitude 0, at -180, at
\* 180 and just below 180 (stored as 180.0000), and at 180 on latitude 60.
Point(latitude, longitude) == [lat |-> latitude, lng |-> longitude]
MidPoints ==
    {Point(0, 0), Point(0, Deg(-180)), Point(0, Deg(180)), Point(0, Deg(180) - 1),
     Point(Deg(60), Deg(180))}

\* ------------------------------------------------------- the precompute pass
\* buildDataset of build-midpoints.js on a list of n cities.  calculateMidpoint
\* is trigonometry on the two cities; here the midpoint of each pair is given.
CityPairs(n) == {p \in (0..(n - 1)) \X (0..(n - 1)) : p[1] < p[2]}

Extended(grid, gridKey, entry) ==
    IF gridKey \in DOMAIN grid
    THEN [grid EXCEPT ![gridKey] = Append(@, entry)]
    ELSE [k \in DOMAIN grid \cup {gridKey} |-> IF k = gridKey THEN <<entry>> ELSE grid[k]]

EmptyGrid == [k \in {} |-> <<>>]

\* for (let j = i + 1; ...)
FirstJ(i) == i + 1

\* The loop variables after the body of the inner loop has run for (i, j).
AfterPair(n, i, j) ==
    IF j + 1 < n THEN <<i, j + 1>> ELSE <<i + 1, FirstJ(i + 1)>>

\* The first (i, j) for which the body runs, from the loop variables on.
RECURSIVE LoopAt(_, _, _)
LoopAt(n, i, j) ==
    IF i >= n THEN <<n, n>>
    ELSE IF j < n THEN <<i, j>>
    ELSE LoopAt(n, i + 1, FirstJ(i + 1))

BuildStart ==
    /\ \E n \in 0..MaxCities :
       \E midpoint \in [CityPairs(n) -> MidPoints] :
           build = [phase |-> "pairs", n |-> n, midpoint |-> midpoint,
                    at |-> LoopAt(n, 0, FirstJ(0)), grid |-> EmptyGrid,
                    gridIndex |-> EmptyGrid, files |-> EmptyGrid]
    /\ seek = Idle
    /\ cache = Idle
    /\ heat = Idle
    /\ reflect = Idle
    /\ loader = Idle

\* One run of the body of the inner loop of buildDataset.
RecordPair ==
    /\ build.phase = "pairs"
    /\ build.at[1] < build.n
    /\ LET i == build.at[1]
           j == build.at[2]
           midpoint == build.midpoint[<<i, j>>]
           gridKey == getGridKey(midpoint.lat, midpoint.lng)
           entry == [i |-> i, j |-> j, lat |-> Round4(midpoint.lat), lng |-> Round4(midpoint.lng)]
           next == AfterPair(build.n, i, j)
       IN  build' = [build EXCEPT !.grid = Extended(build.grid, gridKey, entry),
                                  !.at = LoopAt(build.n, next[1], next[2])]
    /\ UNCHANGED <<seek, cache, heat, reflect, loader, searchVars, finderVars, gridVars,
                   apiVars, wVars, histVars>>

\* After the loops: the grid files and index.json are written.
SaveGrid ==
    /\ build.phase = "pairs"
    /\ build.at[1] >= build.n
    /\ build' = [build EXCEPT !.phase = "saved",
                              !.files = build.grid,
                              !.gridIndex = [k \in DOMAIN build.grid |-> Len(build.grid[k])]]
    /\ UNCHANGED <<seek, cache, heat, reflect, loader, searchVars, finderVars, gridVars,
                   apiVars, wVars, histVars>>

InitBuild ==
    /\ InitOffload
    /\ SearchIdle
    /\ FinderIdle
    /\ GridIdle
    /\ BuildStart

NextBuild ==
    \/ RecordPair
    \/ SaveGrid

BuildSpec == InitBuild /\ [][NextBuild]_vars

\* The records of the grid: <<cell key, record>>, one per place in a cell.
Records(grid) == {r \in (DOMAIN grid) \X (1..(MaxCities * MaxCities)) : r[2] <= Len(grid[r[1]])}

RECURSIVE SumOver(_, _)
SumOver(f, keys) ==
    IF keys = {} THEN 0
    ELSE LET k == CHOOSE k \in keys : TRUE IN f[k] + SumOver(f, keys \ {k})

\* the pairs i < j the loops have passed
Passed ==
    {p \in CityPairs(build.n) :
        \/ p[1] < build.at[1]
        \/ (p[1] = build.at[1] /\ p[2] < build.at[2])}

\* C24: every pair i < j the loops have passed is recorded exactly once, in
\* the cell whose key is floor((lat+90)/5)_floor((lng+180)/5) of its midpoint,
\* and nothing else is recorded; once saved, the loops have passed every
\* pair, the index maps each cell with records to their number, and the
\* numbers sum to n(n-1)/2.
C24_EachPairOnceInItsCell ==
    build.phase \in {"pairs", "saved"} =>
        /\ \A p \in Passed :
              LET places == {r \in Records(build.grid) :
                                build.grid[r[1]][r[2]].i = p[1] /\ build.grid[r[1]][r[2]].j = p[2]}
                  midpoint == build.midpoint[p]
              IN  /\ Cardinality(places) = 1
                  /\ \A r \in places :
                        /\ r[1].latB = (midpoint.lat + 90 * UnitsPerDegree) \div (5 * UnitsPerDegree)
                        /\ r[1].lngB = (midpoint.lng + 180 * UnitsPerDegree) \div (5 * UnitsPerDegree)
        /\ \A r \in Records(build.grid) :
              <<build.grid[r[1]][r[2]].i, build.grid[r[1]][r[2]].j>> \in Passed
        /\ build.phase = "saved" =>
              /\ Passed = CityPairs(build.n)
              /\ DOMAIN build.gridIndex = {k \in DOMAIN build.files : build.files[k] # <<>>}
              /\ \A k \in DOMAIN build.gridIndex : build.gridIndex[k] = Len(build.files[k])
              /\ 2 * SumOver(build.gridIndex, DOMAIN build.gridIndex) = build.n * (build.n - 1)

\* A saved grid of the largest city list whose pairs fell in more than one
\* cell, one of them holding more than one pair.
C24_Witness ==
    /\ build.phase = "saved"
    /\ build.n = MaxCities
    /\ Cardinality(DOMAIN build.gridIndex) > 1
    /\ \E k \in DOMAIN build.gridIndex : build.gridIndex[k] > 1


\* ------------------------------------------------- a query on a built grid
\* Math.cos(lat * Math.PI / 180) as a fraction, for the latitudes of the targets.
Cosine(lat) == IF lat = Deg(60) THEN <<1, 2>> ELSE <<1, 1>>

\* const maxLngBuckets = Math.ceil(360 / GRID_SIZE)
maxLngBuckets == (360 + GRID_SIZE - 1) \div GRID_SIZE

\* if (normalizedLngB < 0) normalizedLngB += maxLngBuckets;
\* if (normalizedLngB >= maxLngBuckets) normalizedLngB -= maxLngBuckets;
Normalized(lngB) ==
    LET raised == IF lngB < 0 THEN lngB + maxLngBuckets ELSE lngB
    IN  IF raised >= maxLngBuckets THEN raised - maxLngBuckets ELSE raised

\* The bounding box of getNearbyGridKeys, in buckets.
Box(lat, lng, radiusKm) ==
    LET latDelta == (radiusKm * UnitsPerDegree) \div 111
        lngDelta == (radiusKm * UnitsPerDegree * Cosine(lat)[2]) \div (111 * Cosine(lat)[1])
    IN  [minLat |-> lat - latDelta, maxLat |-> lat + latDelta,
         minLng |-> lng - lngDelta, maxLng |-> lng + lngDelta,
         minLatBucket |-> (lat - latDelta + Deg(90)) \div Deg(GRID_SIZE),
         maxLatBucket |-> (lat + latDelta + Deg(90)) \div Deg(GRID_SIZE),
         minLngBucket |-> (lng - lngDelta + Deg(180)) \div Deg(GRID_SIZE),
         maxLngBucket |-> (lng + lngDelta + Deg(180)) \div Deg(GRID_SIZE)]

\* The (latB, lngB) of the two loops at which `gridIndex[key]` holds: for
\* each key of the index, the loop values that are normalized to it.
Hits(box, gridIndex) ==
    {h \in {<<k.latB, raw>> : k \in DOMAIN gridIndex, raw \in box.minLngBucket..box.maxLngBucket} :
        /\ h[1] >= box.minLatBucket
        /\ h[1] <= box.maxLatBucket
        /\ Key(h[1], Normalized(h[2])) \in DOMAIN gridIndex}

\* keys.push(key) in the order of the loops; each key with the lngB it was
\* normalized from.
RECURSIVE InLoopOrder(_)
InLoopOrder(hits) ==
    IF hits = {} THEN <<>>
    ELSE LET h == CHOOSE h \in hits :
                    \A g \in hits : h[1] < g[1] \/ (h[1] = g[1] /\ h[2] <= g[2])
         IN  <<[key |-> Key(h[1], Normalized(h[2])), raw |-> h[2]]>> \o InLoopOrder(hits \ {h})

\* getNearbyGridKeys(lat, lng, radiusKm), reading gridIndex
NearbyGridKeys(lat, lng, radiusKm, gridIndex) ==
    InLoopOrder(Hits(Box(lat, lng, radiusKm), gridIndex))

\* The grid buildDataset saves for pairs with the given midpoints: pair k is
\* the pair (0, k).
RECURSIVE GridOf(_)
GridOf(mids) ==
    IF mids = <<>> THEN EmptyGrid
    ELSE LET k == Len(mids)
             m == mids[k]
         IN  Extended(GridOf(SubSeq(mids, 1, k - 1)), getGridKey(m.lat, m.lng),
                      [i |-> 0, j |-> k, lat |-> Round4(m.lat), lng |-> Round4(m.lng)])

\* getDistance(target.lat, target.lng, midLat, midLng): 0 for the same
\* coordinates, positive otherwise (also between longitudes 180 and -180,
\* where the haversine leaves a positive residue).
Separation(a, b) ==
    LET dLng == Abs(a.lng - b.lng)
    IN  Abs(a.lat - b.lat) + Min(dLng, Deg(360) - dLng)
Score(target, pair) ==
    IF target.lat = pair.lat /\ target.lng = pair.lng THEN 0
    ELSE 1 + Separation(target, pair)

RECURSIVE GatheredFrom(_, _)
GatheredFrom(files, keys) ==
    IF keys = <<>> THEN <<>>
    ELSE files[keys[1].key] \o GatheredFrom(files, SubSeq(keys, 2, Len(keys)))

Stored(p) == Point(Round4(p.lat), Round4(p.lng))

SeekStart ==
    /\ \E n \in 1..MaxStored :
       \E mids \in [1..n -> MidPoints], target \in {Stored(p) : p \in MidPoints},
          maxResults \in 1..(MaxStored + 1) :
           seek = [phase |-> "searching", mids |-> mids, files |-> GridOf(mids),
                   gridIndex |-> [k \in DOMAIN GridOf(mids) |-> Len(GridOf(mids)[k])],
                   target |-> target, maxResults |-> maxResults,
                   next |-> 1, radius |-> 0, keys |-> <<>>, loaded |-> {},
                   allCandidates |-> <<>>, combinations |-> <<>>]
    /\ build = Idle
    /\ cache = Idle
    /\ heat = Idle
    /\ reflect = Idle
    /\ loader = Idle

\* One iteration of `for (const radius of searchRadii)` of findBestCombinations.
SeekRadius ==
    /\ seek.phase = "searching"
    /\ LET radius == searchRadii[seek.next]
           nearbyKeys == NearbyGridKeys(seek.target.lat, seek.target.lng, radius,
                                        seek.gridIndex)
           found == GatheredFrom(seek.files, nearbyKeys)
           last == seek.next = Len(searchRadii)
       IN  seek' = [seek EXCEPT
                !.next = @ + 1,
                !.radius = radius,
                !.keys = nearbyKeys,
                !.loaded = @ \cup {nearbyKeys[k].key : k \in 1..Len(nearbyKeys)},
                !.allCandidates = IF nearbyKeys = <<>> THEN @ ELSE found,
                !.phase = IF last \/ (nearbyKeys # <<>>
                                      /\ EnoughCandidates(Len(found), seek.maxResults))
                          THEN "scoring" ELSE "searching"]
    /\ UNCHANGED <<build, cache, heat, reflect, loader, searchVars, finderVars, gridVars,
                   apiVars, wVars, histVars>>

\* After the loop: score, sort, slice.
SeekFinish ==
    /\ seek.phase = "scoring"
    /\ LET results == [k \in 1..Len(seek.allCandidates) |->
                          [pair |-> seek.allCandidates[k],
                           score |-> Score(seek.target, seek.allCandidates[k])]]
       IN  seek' = [seek EXCEPT !.phase = "done",
                                !.combinations = Slice(SortByScore(results), seek.maxResults)]
    /\ UNCHANGED <<build, cache, heat, reflect, loader, searchVars, finderVars, gridVars,
                   apiVars, wVars, histVars>>

InitSeek ==
    /\ InitOffload
    /\ SearchIdle
    /\ FinderIdle
    /\ GridIdle
    /\ SeekStart

NextSeek ==
    \/ SeekRadius
    \/ SeekFinish

SeekSpec == InitSeek /\ [][NextSeek]_vars

Called == seek.phase \in {"searching", "scoring", "done"} /\ seek.radius # 0

\* the midpoint lies in the bounding box of the last getNearbyGridKeys call,
\* on some turn around the globe
InTheBox(m) ==
    LET box == Box(seek.target.lat, seek.target.lng, seek.radius)
    IN  /\ m.lat >= box.minLat
        /\ m.lat <= box.maxLat
        /\ \E turn \in {-1, 0, 1} :
              /\ m.lng + turn * Deg(360) >= box.minLng
              /\ m.lng + turn * Deg(360) <= box.maxLng

\* C21: each key getNearbyGridKeys produced has a longitude bucket equal to
\* the raw bucket index modulo 72, hence within 0..71, and there is no gap
\* at the seam: the cell of every precomputed midpoint that lies in the
\* bounding box is among the keys produced.
C21_BucketsWrapModulo ==
    Called =>
        /\ \A k \in 1..Len(seek.keys) :
              /\ seek.keys[k].key.lngB = seek.keys[k].raw % 72
              /\ seek.keys[k].key.lngB \in 0..71
        /\ \A p \in 1..Len(seek.mids) :
              InTheBox(seek.mids[p]) =>
                 \E k \in 1..Len(seek.keys) :
                    seek.keys[k].key = getGridKey(seek.mids[p].lat, seek.mids[p].lng)


\* C25: when the target is the stored midpoint of a precomputed pair P (and
\* the budget is at least 1), the finished query has P among its loaded
\* candidates, and its first result has the minimal score: it is a pair with
\* that stored midpoint, at score 0.
C25_ExactPairFirst ==
    (seek.phase = "done" /\ seek.maxResults >= 1) =>
        \A p \in 1..Len(seek.mids) :
            Stored(seek.mids[p]) = seek.target =>
                /\ \E k \in 1..Len(seek.allCandidates) : seek.allCandidates[k].j = p
                /\ seek.combinations # <<>>
                /\ seek.combinations[1].score = 0
                /\ seek.combinations[1].pair.lat = seek.target.lat
                /\ seek.combinations[1].pair.lng = seek.target.lng


\* C23: a grid query in which the load of a cell file failed does not return
\* results: it ends with an error, unlike a query that found no candidate.
C23_FailedLoadIsAnError ==
    scan.phase = "done" => scan.failed = {}


\* ------------------------------------------------------------ the cell cache
\* currentDataset, isReady and gridCache of cities.js with the loadData and
\* loadGridFile calls in flight.  A cache entry is its cacheKey (dataset and
\* cell key) together with the dataset its contents were fetched from.
DATASETS == {"top200", "full"}
CellKeys == {"18_35", "18_36"}

\* const cacheKey = `${currentDataset}_${gridKey}`
cacheKey(dataset, gridKey) == [dataset |-> dataset, key |-> gridKey]

\* combinations = []
NoResults == [pairs |-> {}, cities |-> "top200", dataset |-> "top200", clearedSince |-> 0]

CacheStart ==
    /\ build = Idle
    /\ seek = Idle
    /\ cache = [phase |-> "page", currentDataset |-> "top200", isReady |-> TRUE,
                cities |-> "top200", gridIndex |-> "top200",
                running |-> <<>>, combinations |-> NoResults,
                gridCache |-> {}, loading |-> {}, fetching |-> {}, queries |-> 0,
                cleared |-> 0, switches |-> 0, accesses |-> <<>>]
    /\ heat = Idle
    /\ reflect = Idle
    /\ loader = Idle

CacheUnchanged ==
    UNCHANGED <<build, seek, heat, reflect, loader, searchVars, finderVars, gridVars,
                apiVars, wVars, histVars>>

\* findCombinations: refused unless isReady; otherwise a query begins.
StartQuery ==
    /\ cache.phase = "page"
    /\ cache.isReady
    /\ cache.queries < MaxQueries
    /\ cache' = [cache EXCEPT
          !.queries = @ + 1,
          !.running = Append(@, [dataset |-> cache.currentDataset, pairs |-> {},
                                 awaits |-> {}, cleared |-> cache.cleared])]
    /\ CacheUnchanged

\* findBestCombinations, after its last await, resolves the pairs it
\* gathered against cities, assigns combinations and returns.
EndQuery ==
    /\ cache.phase = "page"
    /\ cache.queries > 0
    /\ \E q \in 1..Len(cache.running) :
          /\ \A f \in cache.fetching : f.cacheKey \notin cache.running[q].awaits
          /\ cache' = [cache EXCEPT
              !.queries = @ - 1,
              !.running = RemoveAt(@, q),
              !.combinations = [pairs |-> cache.running[q].pairs,
                                cities |-> cache.cities,
                                dataset |-> cache.currentDataset,
                                clearedSince |-> cache.cleared - cache.running[q].cleared]]
    /\ CacheUnchanged

\* loadGridFile(gridKey), called by a query, up to its return from the cache
\* or to its await of the fetch.
CallLoadGridFile ==
    /\ cache.phase = "page"
    /\ cache.queries > 0
    /\ Len(cache.accesses) < MaxAccesses
    /\ \E gridKey \in CellKeys, q \in 1..Len(cache.running) :
          LET ck == cacheKey(cache.currentDataset, gridKey)
              hits == {e \in cache.gridCache : e.cacheKey = ck}
          IN  IF hits # {}
              THEN \E e \in hits :
                      cache' = [cache EXCEPT
                          !.running[q].pairs = @ \cup {e.contents},
                          !.accesses =
                                   Append(@, [dataset |-> cache.currentDataset, key |-> gridKey,
                                              fetched |-> FALSE, contents |-> e.contents,
                                              cleared |-> cache.cleared])]
              ELSE cache' = [cache EXCEPT
                      !.running[q].pairs = @ \cup {cache.currentDataset},
                      !.running[q].awaits = @ \cup {ck},
                      !.fetching = @ \cup {[cacheKey |-> ck, dir |-> cache.currentDataset]},
                      !.accesses =
                          Append(@, [dataset |-> cache.currentDataset, key |-> gridKey,
                                     fetched |-> TRUE, contents |-> cache.currentDataset,
                                     cleared |-> cache.cleared])]
    /\ CacheUnchanged

\* The fetch of a grid file ends: gridCache.set(cacheKey, data) on the
\* gridCache of that moment, or the catch block.
FetchEnds ==
    /\ cache.phase = "page"
    /\ \E f \in cache.fetching, ok \in BOOLEAN :
          cache' = [cache EXCEPT
              !.fetching = @ \ {f},
              !.gridCache = IF ok THEN @ \cup {[cacheKey |-> f.cacheKey, contents |-> f.dir]}
                            ELSE @]
    /\ CacheUnchanged

\* switchDataset(dataset) up to the first await of its loadData(), which
\* has read the directory of the dataset and started the two fetches.
SwitchDataset ==
    /\ cache.phase = "page"
    /\ cache.switches < MaxSwitches
    /\ \E dataset \in DATASETS :
          /\ dataset # cache.currentDataset
          /\ cache' = [cache EXCEPT !.currentDataset = dataset,
                                    !.isReady = FALSE,
                                    !.loading = @ \cup {[dir |-> dataset, stage |-> "fetch"]},
                                    !.switches = @ + 1]
    /\ CacheUnchanged

\* A loadData() of a switch goes on after Promise.all and citiesRes.json():
\* cities is assigned and indexRes.json() awaited; or an error is caught and
\* switchDataset returns.
LoadDataCities ==
    /\ cache.phase = "page"
    /\ \E l \in cache.loading, ok \in BOOLEAN :
          /\ l.stage = "fetch"
          /\ cache' = [cache EXCEPT
                !.loading = (@ \ {l}) \cup
                            (IF ok THEN {[dir |-> l.dir, stage |-> "index"]} ELSE {}),
                !.cities = IF ok THEN l.dir ELSE @]
    /\ CacheUnchanged

\* loadData() of a switch ends: with gridIndex assigned, gridCache = new
\* Map() and, back in switchDataset, combinations = [] and isReady = true;
\* or with an error before any of them.
LoadDataEnds ==
    /\ cache.phase = "page"
    /\ \E l \in cache.loading, ok \in BOOLEAN :
          /\ l.stage = "index"
          /\ cache' = [cache EXCEPT
                !.loading = @ \ {l},
                !.gridIndex = IF ok THEN l.dir ELSE @,
                !.gridCache = IF ok THEN {} ELSE @,
                !.cleared = IF ok THEN @ + 1 ELSE @,
                !.combinations = IF ok THEN NoResults ELSE @,
                !.isReady = IF ok THEN TRUE ELSE @]
    /\ CacheUnchanged

InitCache ==
    /\ InitOffload
    /\ SearchIdle
    /\ FinderIdle
    /\ GridIdle
    /\ CacheStart

NextCache ==
    \/ StartQuery
    \/ EndQuery
    \/ CallLoadGridFile
    \/ FetchEnds
    \/ SwitchDataset
    \/ LoadDataCities
    \/ LoadDataEnds

CacheSpec == InitCache /\ [][NextCache]_vars

\* C22: loadGridFile returns contents that were loaded for the dataset
\* current at the time of the call, and after a dataset switch (once its
\* loadData has replaced the cache) the first access to each cell of a
\* dataset fetches it again.
C22_CachePerDataset ==
    cache.phase = "page" =>
        \A i \in 1..Len(cache.accesses) :
            LET a == cache.accesses[i]
            IN  /\ a.contents = a.dataset
                /\ (/\ a.cleared >= 1
                    /\ \A j \in 1..(i - 1) :
                          ~(/\ cache.accesses[j].dataset = a.dataset
                            /\ cache.accesses[j].key = a.key
                            /\ cache.accesses[j].cleared = a.cleared))
                   => a.fetched


\* ======================================================================
\* The coverage heatmap of the finder page (finder.js, generateHeatmap):
\* the tiles of the midpoints are seeded, then a distance-aware flood fill
\* colours the tiles around them.  Distances are in metres.
\* ======================================================================

\* Largest number of midpoints of a heatmap that is followed.
MaxSeeds == 2

\* A limit on the number of tiles small enough to be hit by the fills that
\* are followed; the fills that hit the limit of the code take half a
\* million iterations.
TileCap == 50

MAX_TILES == 500000

tileSize == 100

MetresPerKm == 1000

\* getTileKey with latStep = lngStep = tileSize / 111, the midpoint in
\* whole degrees.
getTileKey(lat, lng) ==
    <<((lat + 90) * 111) \div tileSize, ((lng + 180) * 111) \div tileSize>>

\* getTileDimensions: heightKm = latStep * 111.
heightM == tileSize * MetresPerKm

\* getTileDimensions: widthKm = lngStep * 111 * cos(lat) at the latitude
\* -90 + (latIndex + 0.5) * latStep of the row's centre, rounded to the
\* metre.  Nothing keeps latIndex below 200, where this latitude passes the
\* pole and the cosine is negative.
widthM(latIndex) ==
    CASE latIndex = 93 -> 99494 [] latIndex = 94 -> 99640
      [] latIndex = 95 -> 99761 [] latIndex = 96 -> 99857
      [] latIndex = 97 -> 99929 [] latIndex = 98 -> 99976
      [] latIndex = 99 -> 99998 [] latIndex = 100 -> 99996
      [] latIndex = 101 -> 99968 [] latIndex = 102 -> 99916
      [] latIndex = 103 -> 99840 [] latIndex = 104 -> 99739
      [] latIndex = 105 -> 99613 [] latIndex = 106 -> 99462
      [] latIndex = 107 -> 99287 [] latIndex = 108 -> 99087
      [] latIndex = 195 -> 6756 [] latIndex = 196 -> 5186
      [] latIndex = 197 -> 3616 [] latIndex = 198 -> 2044
      [] latIndex = 199 -> 472 [] latIndex = 200 -> -1101
      [] latIndex = 201 -> -2673 [] latIndex = 202 -> -4244
      [] latIndex = 203 -> -5814 [] latIndex = 204 -> -7383

\* getNeighborKeysWithDistance: diagonalDist = sqrt(vertical^2 +
\* horizontal^2) of the row, rounded to the metre.
diagonalM(latIndex) ==
    CASE latIndex = 93 -> 141064 [] latIndex = 94 -> 141167
      [] latIndex = 95 -> 141252 [] latIndex = 96 -> 141320
      [] latIndex = 97 -> 141371 [] latIndex = 98 -> 141404
      [] latIndex = 99 -> 141420 [] latIndex = 100 -> 141418
      [] latIndex = 101 -> 141399 [] latIndex = 102 -> 141362
      [] latIndex = 103 -> 141308 [] latIndex = 104 -> 141237
      [] latIndex = 105 -> 141148 [] latIndex = 106 -> 141041
      [] latIndex = 107 -> 140918 [] latIndex = 108 -> 140777
      [] latIndex = 195 -> 100228 [] latIndex = 196 -> 100134
      [] latIndex = 197 -> 100065 [] latIndex = 198 -> 100021
      [] latIndex = 199 -> 100001 [] latIndex = 200 -> 100006
      [] latIndex = 201 -> 100036 [] latIndex = 202 -> 100090
      [] latIndex = 203 -> 100169 [] latIndex = 204 -> 100272

\* getNeighborKeysWithDistance: the eight neighbours, in the order of the
\* returned array.
getNeighborKeysWithDistance(key) ==
    LET latIndex == key[1]
        lngIndex == key[2]
        verticalDist == heightM
        horizontalDist == widthM(latIndex)
        diagonalDist == diagonalM(latIndex)
    IN  << [key |-> <<latIndex - 1, lngIndex>>, distance |-> verticalDist],
           [key |-> <<latIndex + 1, lngIndex>>, distance |-> verticalDist],
           [key |-> <<latIndex, lngIndex - 1>>, distance |-> horizontalDist],
           [key |-> <<latIndex, lngIndex + 1>>, distance |-> horizontalDist],
           [key |-> <<latIndex - 1, lngIndex - 1>>, distance |-> diagonalDist],
           [key |-> <<latIndex - 1, lngIndex + 1>>, distance |-> diagonalDist],
           [key |-> <<latIndex + 1, lngIndex - 1>>, distance |-> diagonalDist],
           [key |-> <<latIndex + 1, lngIndex + 1>>, distance |-> diagonalDist] >>

\* The colour of a distance.
Band(newDist) ==
    IF newDist < 100 * MetresPerKm THEN "yellow"
    ELSE IF newDist < 250 * MetresPerKm THEN "orange"
    ELSE "red"

Beyond_Never(newDist) == FALSE

\* "Skip if beyond max distance".
Beyond(newDist) == newDist >= 400 * MetresPerKm

Put(f, k, v) == [x \in (DOMAIN f) \cup {k} |-> IF x = k THEN v ELSE f[x]]

Visit_Unguarded(h, currentDist, n) ==
    LET newDist == currentDist + n.distance
    IN  IF Beyond(newDist) THEN h
        ELSE [h EXCEPT !.tileGrid = Put(@, n.key, Band(newDist)),
                       !.tileDistances = Put(@, n.key, newDist),
                       !.queue = IF n.key \in h.inQueue THEN @
                                 ELSE Append(@, [key |-> n.key, dist |-> newDist]),
                       !.inQueue = @ \cup {n.key}]

Visit_Requeue(h, currentDist, n) ==
    LET newDist == currentDist + n.distance
    IN  IF Beyond(newDist) THEN h
        ELSE IF /\ n.key \in DOMAIN h.tileDistances
                /\ h.tileDistances[n.key] <= newDist THEN h
        ELSE IF n.key \in DOMAIN h.tileGrid /\ h.tileGrid[n.key] = "green" THEN h
        ELSE [h EXCEPT !.tileGrid = Put(@, n.key, Band(newDist)),
                       !.tileDistances = Put(@, n.key, newDist),
                       !.queue = Append(@, [key |-> n.key, dist |-> newDist]),
                       !.inQueue = @ \cup {n.key}]

\* The callback of neighbors.forEach on one neighbour n of the tile taken
\* from the queue with distance currentDist.
Visit(h, currentDist, n) ==
    LET newDist == currentDist + n.distance
    IN  IF Beyond(newDist) THEN h
        ELSE IF /\ n.key \in DOMAIN h.tileDistances
                /\ h.tileDistances[n.key] <= newDist THEN h
        ELSE IF n.key \in DOMAIN h.tileGrid /\ h.tileGrid[n.key] = "green" THEN h
        ELSE [h EXCEPT !.tileGrid = Put(@, n.key, Band(newDist)),
                       !.tileDistances = Put(@, n.key, newDist),
                       !.queue = IF n.key \in h.inQueue THEN @
                                 ELSE Append(@, [key |-> n.key, dist |-> newDist]),
                       !.inQueue = @ \cup {n.key}]

RECURSIVE ForEach(_, _, _, _)
\* neighbors.forEach from the i-th neighbour on.
ForEach(h, currentDist, neighbors, i) ==
    IF i > Len(neighbors) THEN h
    ELSE ForEach(Visit(h, currentDist, neighbors[i]), currentDist, neighbors, i + 1)

RECURSIVE InsertionOrder(_, _)
\* Array.from(tileGrid.keys()) after the seeding: the tiles of the midpoints
\* in the order of their first midpoint.
InsertionOrder(midpoints, i) ==
    IF i > Len(midpoints) THEN <<>>
    ELSE LET key == getTileKey(midpoints[i].lat, midpoints[i].lng)
         IN  IF \E j \in 1..(i - 1) :
                    getTileKey(midpoints[j].lat, midpoints[j].lng) = key
             THEN InsertionOrder(midpoints, i + 1)
             ELSE <<key>> \o InsertionOrder(midpoints, i + 1)

SeedKeys(midpoints) ==
    {getTileKey(midpoints[i].lat, midpoints[i].lng) : i \in 1..Len(midpoints)}

BeginFill_KeepQueued(h) ==
    LET keys == InsertionOrder(h.midpoints, 1)
    IN  [h EXCEPT !.phase = "fill",
                  !.tileGrid = [k \in SeedKeys(h.midpoints) |-> "green"],
                  !.tileDistances = [k \in SeedKeys(h.midpoints) |-> 0],
                  !.queue = [i \in 1..Len(keys) |-> [key |-> keys[i], dist |-> 0]],
                  !.inQueue = @ \cup SeedKeys(h.midpoints),
                  !.queueIndex = 0,
                  !.stopped = FALSE]

\* generateHeatmap from the seeding to the start of its loop: new maps,
\* the seeds, the queue and inQueue.
BeginFill(h) ==
    LET keys == InsertionOrder(h.midpoints, 1)
    IN  [h EXCEPT !.phase = "fill",
                  !.tileGrid = [k \in SeedKeys(h.midpoints) |-> "green"],
                  !.tileDistances = [k \in SeedKeys(h.midpoints) |-> 0],
                  !.queue = [i \in 1..Len(keys) |-> [key |-> keys[i], dist |-> 0]],
                  !.inQueue = SeedKeys(h.midpoints),
                  !.queueIndex = 0,
                  !.stopped = FALSE]

\* The midpoints of the heatmaps that are followed, in whole degrees; the
\* last one lies at the pole.
HeatMidpoints ==
    {[lat |-> 0, lng |-> 0], [lat |-> 2, lng |-> 0], [lat |-> 1, lng |-> 1],
     [lat |-> 90, lng |-> 0]}

AtPole(midpoints) == \E i \in 1..Len(midpoints) : midpoints[i].lat = 90

MidpointLists ==
    UNION {[1..n -> HeatMidpoints] : n \in 1..MaxSeeds}

NoTiles == [k \in {} |-> "green"]

\* The first generateHeatmap of a page whose midpoint cache is filled.  A
\* fill that starts at the pole does not end before the limit; it is
\* followed with the small limit only.
HeatStart ==
    \E midpoints \in MidpointLists, limit \in {MAX_TILES, TileCap} :
        /\ AtPole(midpoints) => limit = TileCap
        /\ heat = BeginFill([phase |-> "fill", run |-> 1, midpoints |-> midpoints,
                             limit |-> limit, tileGrid |-> NoTiles,
                             tileDistances |-> NoTiles, queue |-> <<>>,
                             queueIndex |-> 0, inQueue |-> {}, stopped |-> FALSE,
                             first |-> NoTiles])

HeatUnchanged ==
    UNCHANGED <<build, seek, cache, reflect, loader, searchVars, finderVars, gridVars,
                apiVars, wVars, histVars>>

\* "Safety check to prevent runaway growth".
OverLimit(size, limit) == size > limit

\* One iteration of the while loop: the next entry of the queue is taken;
\* break if the grid is over the limit, else its neighbours are visited.
FillStep ==
    /\ heat.phase = "fill"
    /\ ~heat.stopped
    /\ heat.queueIndex < Len(heat.queue)
    /\ LET current == heat.queue[heat.queueIndex + 1]
           taken == [heat EXCEPT !.queueIndex = @ + 1]
       IN  heat' = IF OverLimit(Cardinality(DOMAIN heat.tileGrid), heat.limit)
                   THEN [taken EXCEPT !.stopped = TRUE]
                   ELSE ForEach(taken, current.dist,
                                getNeighborKeysWithDistance(current.key), 1)
    /\ HeatUnchanged

\* The loop has ended, by its condition or by break: every tile of the
\* grid is drawn and the function returns.
Render ==
    /\ heat.phase = "fill"
    /\ heat.stopped \/ heat.queueIndex >= Len(heat.queue)
    /\ heat' = [heat EXCEPT !.phase = "rendered",
                            !.first = IF heat.run = 1 THEN heat.tileGrid ELSE @]
    /\ HeatUnchanged

\* generateHeatmap is called again, the points and the midpoint cache
\* unchanged.
GenerateAgain ==
    /\ heat.phase = "rendered"
    /\ heat.run = 1
    /\ heat' = BeginFill([heat EXCEPT !.run = 2])
    /\ HeatUnchanged

InitHeat ==
    /\ InitOffload
    /\ SearchIdle
    /\ FinderIdle
    /\ GridIdle
    /\ build = Idle
    /\ seek = Idle
    /\ cache = Idle
    /\ reflect = Idle
    /\ loader = Idle
    /\ HeatStart

NextHeat ==
    \/ FillStep
    \/ Render
    \/ GenerateAgain

HeatSpec == InitHeat /\ [][NextHeat]_vars

\* The tiles that hold a midpoint.
Seeds == SeedKeys(heat.midpoints)

Filling == heat.phase \in {"fill", "rendered"}

\* C26: every tile that holds a midpoint is green with distance 0 at every
\* step of the fill and at its end.
C26_SeedsStayGreen ==
    Filling =>
        \A key \in Seeds :
            /\ key \in DOMAIN heat.tileGrid
            /\ heat.tileGrid[key] = "green"
            /\ heat.tileDistances[key] = 0

\* A fill has ended in which a neighbour of a seed is a seed itself and was
\* visited from it.
C26_Witness ==
    /\ heat.phase = "rendered"
    /\ Cardinality(Seeds) > 1
    /\ \E a \in Seeds, b \in Seeds :
          /\ a # b
          /\ \E i \in 1..8 : getNeighborKeysWithDistance(a)[i].key = b
    /\ Cardinality(DOMAIN heat.tileGrid) > Cardinality(Seeds)


\* C27: during the fill the recorded distance of a tile never increases, a
\* distance that is written is below 400 km, and every coloured tile that
\* is not a seed has a recorded distance below 400 km.
C27_DistanceOnlyImproves ==
    /\ [](Filling =>
            \A key \in DOMAIN heat.tileGrid :
                /\ key \in DOMAIN heat.tileDistances
                /\ key \notin Seeds => heat.tileDistances[key] < 400 * MetresPerKm)
    /\ [][(heat.phase = "fill" /\ heat'.phase = "fill" /\ heat'.run = heat.run) =>
            /\ \A key \in DOMAIN heat.tileDistances :
                  /\ key \in DOMAIN heat'.tileDistances
                  /\ heat'.tileDistances[key] <= heat.tileDistances[key]
            /\ \A key \in DOMAIN heat'.tileDistances :
                  \/ /\ key \in DOMAIN heat.tileDistances
                     /\ heat'.tileDistances[key] = heat.tileDistances[key]
                  \/ heat'.tileDistances[key] < 400 * MetresPerKm]_vars

\* A tile that is not a seed has, at the end of a fill, a smaller distance
\* than the one it was queued with: its distance was replaced.
C27_Witness ==
    /\ heat.phase = "rendered"
    /\ \E i \in 1..Len(heat.queue) :
          /\ heat.queue[i].key \notin Seeds
          /\ heat.tileDistances[heat.queue[i].key] < heat.queue[i].dist


\* The number of coloured tiles.
Coloured == Cardinality(DOMAIN heat.tileGrid)

\* C28: at no point of the expansion does the number of coloured tiles
\* exceed the limit.
C28_NeverAboveLimit ==
    Filling => Coloured <= heat.limit


\* C29: a second generateHeatmap on the same midpoints ends with the same
\* colour for the same tiles as the first.
C29_SameMapTwice ==
    (heat.phase = "rendered" /\ heat.run = 2) => heat.tileGrid = heat.first

\* The second fill of several midpoints has ended, with tiles of every
\* colour.
C29_Witness ==
    /\ heat.phase = "rendered"
    /\ heat.run = 2
    /\ Len(heat.midpoints) > 1
    /\ \A colour \in {"green", "yellow", "orange", "red"} :
          \E key \in DOMAIN heat.tileGrid : heat.tileGrid[key] = colour


\* ======================================================================
\* The reflections of the source points in a target (GeoCalc:
\* calculateReflection, calculateAllReflections).  The points lie on the
\* equator, their longitudes are in tenths of a degree, distances are in
\* metres.
\* ======================================================================

\* Largest number of source points of a calculateAllReflections call.
MaxSources == 2

MAX_DISTANCE_KM == 20000

ANTIPODAL_THRESHOLD_KM == 10000

\* turf.distance in kilometres, here in metres: the length of the shorter
\* arc between the two points on a sphere of radius 6371.0088 km, which
\* gives 11119.5 m to a tenth of a degree.
turfDistance(a, b) ==
    LET d == Abs(a.lng - b.lng)
        arc == Min(d, 3600 - d)
    IN  (arc * 111195) \div 10

null == [null |-> TRUE]

calculateReflection_Antipodal(source, target) ==
    LET distanceKm == turfDistance(source, target)
    IN  IF distanceKm > ANTIPODAL_THRESHOLD_KM * MetresPerKm THEN null
        ELSE [distance |-> distanceKm]

\* calculateReflection(source, target): null beyond MAX_DISTANCE_KM, else
\* the reflection.  Its position comes from turf.bearing and
\* turf.destination and is not followed.
calculateReflection(source, target) ==
    LET distanceKm == turfDistance(source, target)
    IN  IF distanceKm > MAX_DISTANCE_KM * MetresPerKm THEN null
        ELSE [distance |-> distanceKm]

\* The source points and targets of the calls that are followed.
SourceLngs == {0, 900, 1798, 1799, -1799}
SourceRadii == {10, 20}
SourcePoints == [lng : SourceLngs, radius : SourceRadii]
ReflectTargets == {[lng |-> 0], [lng |-> 1], [lng |-> -1]}

ReflectUnchanged ==
    UNCHANGED <<build, seek, cache, heat, loader, searchVars, finderVars, gridVars,
                apiVars, wVars, histVars>>

\* calculateAllReflections(sources, target) is called.
ReflectStart ==
    \E n \in 0..MaxSources :
    \E sources \in [1..n -> SourcePoints], target \in ReflectTargets :
        reflect = [phase |-> "forEach", sources |-> sources, target |-> target,
                   index |-> 0, outcomes |-> <<>>, reflections |-> <<>>]

\* The forEach callback on the source at reflect.index.
ReflectSource ==
    /\ reflect.phase = "forEach"
    /\ reflect.index < Len(reflect.sources)
    /\ LET source == reflect.sources[reflect.index + 1]
           reflection == calculateReflection(source, reflect.target)
       IN  reflect' = [reflect EXCEPT
              !.index = @ + 1,
              !.outcomes = Append(@, reflection),
              !.reflections =
                  IF reflection # null
                  THEN Append(@, [radius |-> source.radius,
                                  sourceIndex |-> reflect.index,
                                  distance |-> reflection.distance,
                                  isAntipodal |-> reflection.distance >
                                      ANTIPODAL_THRESHOLD_KM * MetresPerKm])
                  ELSE @]
    /\ ReflectUnchanged

\* return reflections
ReflectReturn ==
    /\ reflect.phase = "forEach"
    /\ reflect.index = Len(reflect.sources)
    /\ reflect' = [reflect EXCEPT !.phase = "returned"]
    /\ ReflectUnchanged

InitReflect ==
    /\ InitOffload
    /\ SearchIdle
    /\ FinderIdle
    /\ GridIdle
    /\ build = Idle
    /\ seek = Idle
    /\ cache = Idle
    /\ heat = Idle
    /\ loader = Idle
    /\ ReflectStart

NextReflect ==
    \/ ReflectSource
    \/ ReflectReturn

ReflectSpec == InitReflect /\ [][NextReflect]_vars

\* The source is further from the target than MAX_DISTANCE_KM.
OutOfRange(source) ==
    turfDistance(source, reflect.target) > MAX_DISTANCE_KM * MetresPerKm

\* C30: calculateReflection returned null for exactly the sources further
\* than MAX_DISTANCE_KM from the target, and the returned list holds one
\* entry for each source within range and none for the others, in the order
\* of the sources, each with the index and the radius of its source.
C30_NullExactlyOutOfRange ==
    /\ reflect.phase \in {"forEach", "returned"} =>
          \A i \in 1..Len(reflect.outcomes) :
              (reflect.outcomes[i] = null) <=> OutOfRange(reflect.sources[i])
    /\ reflect.phase = "returned" =>
          /\ \A i \in 1..Len(reflect.sources) :
                Cardinality({k \in 1..Len(reflect.reflections) :
                                reflect.reflections[k].sourceIndex = i - 1})
                   = IF OutOfRange(reflect.sources[i]) THEN 0 ELSE 1
          /\ \A k \in 1..Len(reflect.reflections) :
                /\ reflect.reflections[k].sourceIndex \in 0..(Len(reflect.sources) - 1)
                /\ reflect.reflections[k].radius =
                      reflect.sources[reflect.reflections[k].sourceIndex + 1].radius
                /\ \A m \in 1..(k - 1) :
                      reflect.reflections[m].sourceIndex < reflect.reflections[k].sourceIndex

\* A call has returned whose first source was out of range and whose second
\* source, with another radius and more than 10000 km away, was in range.
C30_Witness ==
    /\ reflect.phase = "returned"
    /\ Len(reflect.sources) = 2
    /\ OutOfRange(reflect.sources[1])
    /\ ~OutOfRange(reflect.sources[2])
    /\ reflect.sources[1].radius # reflect.sources[2].radius
    /\ Len(reflect.reflections) = 1
    /\ reflect.reflections[1].isAntipodal


\* ======================================================================
\* The reflection point of calculateReflection (GeoCalc).  Latitudes,
\* longitudes and bearings are in hundredths of a degree, distances in
\* kilometres.  The three turf functions are given by their values on the
\* points that are followed: turf.distance is the haversine distance on a
\* sphere of radius 6371.0088 km, turf.bearing the initial bearing of the
\* great circle from the first point to the second, turf.destination the
\* point at a distance from an origin along the great circle that leaves
\* it with a bearing (its longitude is not brought back into -180..180).
\* ======================================================================

ReflectSources ==
    {[lat |-> 0, lng |-> 0],
     [lat |-> 4000, lng |-> -7400],
     [lat |-> 6000, lng |-> 1000],
     [lat |-> -3000, lng |-> 15000]}

ReflectionTargets ==
    {[lat |-> 4500, lng |-> 9000],
     [lat |-> 0, lng |-> 6000],
     [lat |-> 5200, lng |-> 1300],
     [lat |-> -1000, lng |-> -6000],
     [lat |-> 4000, lng |-> -7400],
     [lat |-> -4000, lng |-> 10600]}

DistanceValues ==
    { <<[lat |-> 0, lng |-> 0], [lat |-> 4500, lng |-> 9000], 10008>>,
      <<[lat |-> 4500, lng |-> 9000], [lat |-> 3000, lng |-> 21526], 10008>>,
      <<[lat |-> 0, lng |-> 0], [lat |-> 3000, lng |-> 21526], 15011>>,
      <<[lat |-> 4500, lng |-> 9000], [lat |-> 0, lng |-> 18000], 10008>>,
      <<[lat |-> 0, lng |-> 0], [lat |-> 0, lng |-> 18000], 20015>>,
      <<[lat |-> 0, lng |-> 0], [lat |-> 0, lng |-> 6000], 6672>>,
      <<[lat |-> 0, lng |-> 6000], [lat |-> 0, lng |-> 12000], 6672>>,
      <<[lat |-> 0, lng |-> 0], [lat |-> 0, lng |-> 12000], 13343>>,
      <<[lat |-> 0, lng |-> 0], [lat |-> 5200, lng |-> 1300], 5909>>,
      <<[lat |-> 5200, lng |-> 1300], [lat |-> 7331, lng |-> 16417], 5909>>,
      <<[lat |-> 0, lng |-> 0], [lat |-> 7331, lng |-> 16417], 11791>>,
      <<[lat |-> 5200, lng |-> 1300], [lat |-> 7098, lng |-> 14934], 5909>>,
      <<[lat |-> 0, lng |-> 0], [lat |-> 7098, lng |-> 14934], 11817>>,
      <<[lat |-> 0, lng |-> 0], [lat |-> -1000, lng |-> -6000], 6727>>,
      <<[lat |-> -1000, lng |-> -6000], [lat |-> -1486, lng |-> -12193], 6727>>,
      <<[lat |-> 0, lng |-> 0], [lat |-> -1486, lng |-> -12193], 13426>>,
      <<[lat |-> -1000, lng |-> -6000], [lat |-> -985, lng |-> -12152], 6727>>,
      <<[lat |-> 0, lng |-> 0], [lat |-> -985, lng |-> -12152], 13455>>,
      <<[lat |-> 0, lng |-> 0], [lat |-> 4000, lng |-> -7400], 8652>>,
      <<[lat |-> 4000, lng |-> -7400], [lat |-> 3891, lng |-> -18285], 8652>>,
      <<[lat |-> 0, lng |-> 0], [lat |-> 3891, lng |-> -18285], 15679>>,
      <<[lat |-> 4000, lng |-> -7400], [lat |-> 1575, lng |-> -16115], 8652>>,
      <<[lat |-> 0, lng |-> 0], [lat |-> 1575, lng |-> -16115], 17304>>,
      <<[lat |-> 0, lng |-> 0], [lat |-> -4000, lng |-> 10600], 11363>>,
      <<[lat |-> -4000, lng |-> 10600], [lat |-> -2090, lng |-> 23398], 11363>>,
      <<[lat |-> 0, lng |-> 0], [lat |-> -2090, lng |-> 23398], 13713>>,
      <<[lat |-> -4000, lng |-> 10600], [lat |-> 1575, lng |-> -16115], 11363>>,
      <<[lat |-> 4000, lng |-> -7400], [lat |-> 4500, lng |-> 9000], 10429>>,
      <<[lat |-> 4500, lng |-> 9000], [lat |-> 4018, lng |-> 25522], 10429>>,
      <<[lat |-> 4000, lng |-> -7400], [lat |-> 4018, lng |-> 25522], 2605>>,
      <<[lat |-> 4500, lng |-> 9000], [lat |-> -4742, lng |-> -25182], 10429>>,
      <<[lat |-> 4000, lng |-> -7400], [lat |-> -4742, lng |-> -25182], 19171>>,
      <<[lat |-> 4000, lng |-> -7400], [lat |-> 0, lng |-> 6000], 13582>>,
      <<[lat |-> 0, lng |-> 6000], [lat |-> 2652, lng |-> 18649], 13582>>,
      <<[lat |-> 4000, lng |-> -7400], [lat |-> 2652, lng |-> 18649], 8895>>,
      <<[lat |-> 0, lng |-> 6000], [lat |-> -4000, lng |-> -16600], 13582>>,
      <<[lat |-> 4000, lng |-> -7400], [lat |-> -4000, lng |-> -16600], 12865>>,
      <<[lat |-> 4000, lng |-> -7400], [lat |-> 5200, lng |-> 1300], 6440>>,
      <<[lat |-> 5200, lng |-> 1300], [lat |-> 5103, lng |-> 11515], 6440>>,
      <<[lat |-> 4000, lng |-> -7400], [lat |-> 5103, lng |-> 11515], 9854>>,
      <<[lat |-> 5200, lng |-> 1300], [lat |-> 1121, lng |-> 6425], 6440>>,
      <<[lat |-> 4000, lng |-> -7400], [lat |-> 1121, lng |-> 6425], 12879>>,
      <<[lat |-> 4000, lng |-> -7400], [lat |-> -1000, lng |-> -6000], 5744>>,
      <<[lat |-> -1000, lng |-> -6000], [lat |-> -5752, lng |-> -3366], 5744>>,
      <<[lat |-> 4000, lng |-> -7400], [lat |-> -5752, lng |-> -3366], 11478>>,
      <<[lat |-> -1000, lng |-> -6000], [lat |-> -5912, lng |-> -3883], 5744>>,
      <<[lat |-> 4000, lng |-> -7400], [lat |-> -5912, lng |-> -3883], 11488>>,
      <<[lat |-> 4000, lng |-> -7400], [lat |-> 4000, lng |-> -7400], 0>>,
      <<[lat |-> 4000, lng |-> -7400], [lat |-> -4000, lng |-> 10600], 20015>>,
      <<[lat |-> 6000, lng |-> 1000], [lat |-> 4500, lng |-> 9000], 5298>>,
      <<[lat |-> 4500, lng |-> 9000], [lat |-> 4063, lng |-> 15658], 5298>>,
      <<[lat |-> 6000, lng |-> 1000], [lat |-> 4063, lng |-> 15658], 8416>>,
      <<[lat |-> 4500, lng |-> 9000], [lat |-> 498, lng |-> 11962], 5298>>,
      <<[lat |-> 6000, lng |-> 1000], [lat |-> 498, lng |-> 11962], 10595>>,
      <<[lat |-> 6000, lng |-> 1000], [lat |-> 0, lng |-> 6000], 7923>>,
      <<[lat |-> 0, lng |-> 6000], [lat |-> -3383, lng |-> 12724], 7923>>,
      <<[lat |-> 6000, lng |-> 1000], [lat |-> -3383, lng |-> 12724], 14704>>,
      <<[lat |-> 0, lng |-> 6000], [lat |-> -6000, lng |-> 11000], 7923>>,
      <<[lat |-> 6000, lng |-> 1000], [lat |-> -6000, lng |-> 11000], 15846>>,
      <<[lat |-> 6000, lng |-> 1000], [lat |-> 5200, lng |-> 1300], 909>>,
      <<[lat |-> 5200, lng |-> 1300], [lat |-> 4401, lng |-> 1557], 909>>,
      <<[lat |-> 6000, lng |-> 1000], [lat |-> 4401, lng |-> 1557], 1817>>,
      <<[lat |-> 5200, lng |-> 1300], [lat |-> 4395, lng |-> 1508], 909>>,
      <<[lat |-> 6000, lng |-> 1000], [lat |-> 4395, lng |-> 1508], 1817>>,
      <<[lat |-> 6000, lng |-> 1000], [lat |-> -1000, lng |-> -6000], 9893>>,
      <<[lat |-> -1000, lng |-> -6000], [lat |-> -2208, lng |-> -15297], 9893>>,
      <<[lat |-> 6000, lng |-> 1000], [lat |-> -2208, lng |-> -15297], 15592>>,
      <<[lat |-> -1000, lng |-> -6000], [lat |-> -6073, lng |-> -16609], 9893>>,
      <<[lat |-> 6000, lng |-> 1000], [lat |-> -6073, lng |-> -16609], 19785>>,
      <<[lat |-> 6000, lng |-> 1000], [lat |-> 4000, lng |-> -7400], 5934>>,
      <<[lat |-> 4000, lng |-> -7400], [lat |-> 3521, lng |-> -14283], 5934>>,
      <<[lat |-> 6000, lng |-> 1000], [lat |-> 3521, lng |-> -14283], 9139>>,
      <<[lat |-> 4000, lng |-> -7400], [lat |-> -568, lng |-> -10398], 5934>>,
      <<[lat |-> 6000, lng |-> 1000], [lat |-> -568, lng |-> -10398], 11868>>,
      <<[lat |-> 6000, lng |-> 1000], [lat |-> -4000, lng |-> 10600], 14081>>,
      <<[lat |-> -4000, lng |-> 10600], [lat |-> 1098, lng |-> 23510], 14081>>,
      <<[lat |-> 6000, lng |-> 1000], [lat |-> 1098, lng |-> 23510], 11170>>,
      <<[lat |-> -4000, lng |-> 10600], [lat |-> -568, lng |-> -10398], 14081>>,
      <<[lat |-> -3000, lng |-> 15000], [lat |-> 4500, lng |-> 9000], 10309>>,
      <<[lat |-> 4500, lng |-> 9000], [lat |-> 3164, lng |-> -4401], 10309>>,
      <<[lat |-> -3000, lng |-> 15000], [lat |-> 3164, lng |-> -4401], 18666>>,
      <<[lat |-> 4500, lng |-> 9000], [lat |-> 2566, lng |-> 32631], 10309>>,
      <<[lat |-> -3000, lng |-> 15000], [lat |-> 2566, lng |-> 32631], 19411>>,
      <<[lat |-> -3000, lng |-> 15000], [lat |-> 0, lng |-> 6000], 10008>>,
      <<[lat |-> 0, lng |-> 6000], [lat |-> 0, lng |-> -3000], 10008>>,
      <<[lat |-> -3000, lng |-> 15000], [lat |-> 0, lng |-> -3000], 16679>>,
      <<[lat |-> 0, lng |-> 6000], [lat |-> 3000, lng |-> 33000], 10008>>,
      <<[lat |-> -3000, lng |-> 15000], [lat |-> 3000, lng |-> 33000], 20015>>,
      <<[lat |-> -3000, lng |-> 15000], [lat |-> 5200, lng |-> 1300], 15748>>,
      <<[lat |-> 5200, lng |-> 1300], [lat |-> -1965, lng |-> -14052], 15748>>,
      <<[lat |-> -3000, lng |-> 15000], [lat |-> -1965, lng |-> -14052], 7005>>,
      <<[lat |-> 5200, lng |-> 1300], [lat |-> -4735, lng |-> 25366], 15748>>,
      <<[lat |-> -3000, lng |-> 15000], [lat |-> -4735, lng |-> 25366], 8535>>,
      <<[lat |-> -3000, lng |-> 15000], [lat |-> -1000, lng |-> -6000], 14531>>,
      <<[lat |-> -1000, lng |-> -6000], [lat |-> -2706, lng |-> 8643], 14531>>,
      <<[lat |-> -3000, lng |-> 15000], [lat |-> -2706, lng |-> 8643], 6138>>,
      <<[lat |-> -1000, lng |-> -6000], [lat |-> 4658, lng |-> 8095], 14531>>,
      <<[lat |-> -3000, lng |-> 15000], [lat |-> 4658, lng |-> 8095], 10969>>,
      <<[lat |-> -3000, lng |-> 15000], [lat |-> 4000, lng |-> -7400], 15901>>,
      <<[lat |-> 4000, lng |-> -7400], [lat |-> -1734, lng |-> 7212], 15901>>,
      <<[lat |-> -3000, lng |-> 15000], [lat |-> -1734, lng |-> 7212], 7915>>,
      <<[lat |-> 4000, lng |-> -7400], [lat |-> -3178, lng |-> 6095], 15901>>,
      <<[lat |-> -3000, lng |-> 15000], [lat |-> -3178, lng |-> 6095], 8229>>,
      <<[lat |-> -3000, lng |-> 15000], [lat |-> -4000, lng |-> 10600], 4114>>,
      <<[lat |-> -4000, lng |-> 10600], [lat |-> -4678, lng |-> 5501], 4114>>,
      <<[lat |-> -3000, lng |-> 15000], [lat |-> -4678, lng |-> 5501], 7981>>,
      <<[lat |-> -4000, lng |-> 10600], [lat |-> -3178, lng |-> 6095], 4114>> }

BearingValues ==
    { <<[lat |-> 0, lng |-> 0], [lat |-> 4500, lng |-> 9000], 4500>>,
      <<[lat |-> 0, lng |-> 0], [lat |-> 0, lng |-> 6000], 9000>>,
      <<[lat |-> 0, lng |-> 0], [lat |-> 5200, lng |-> 1300], 997>>,
      <<[lat |-> 0, lng |-> 0], [lat |-> -1000, lng |-> -6000], -10151>>,
      <<[lat |-> 0, lng |-> 0], [lat |-> 4000, lng |-> -7400], -4888>>,
      <<[lat |-> 0, lng |-> 0], [lat |-> -4000, lng |-> 10600], 13112>>,
      <<[lat |-> 4000, lng |-> -7400], [lat |-> 4500, lng |-> 9000], 1126>>,
      <<[lat |-> 4000, lng |-> -7400], [lat |-> 0, lng |-> 6000], 5817>>,
      <<[lat |-> 4000, lng |-> -7400], [lat |-> 5200, lng |-> 1300], 4652>>,
      <<[lat |-> 4000, lng |-> -7400], [lat |-> -1000, lng |-> -6000], 16232>>,
      <<[lat |-> 4000, lng |-> -7400], [lat |-> 4000, lng |-> -7400], 0>>,
      <<[lat |-> 6000, lng |-> 1000], [lat |-> 4500, lng |-> 9000], 7045>>,
      <<[lat |-> 6000, lng |-> 1000], [lat |-> 0, lng |-> 6000], 12601>>,
      <<[lat |-> 6000, lng |-> 1000], [lat |-> 5200, lng |-> 1300], 16690>>,
      <<[lat |-> 6000, lng |-> 1000], [lat |-> -1000, lng |-> -6000], -11225>>,
      <<[lat |-> 6000, lng |-> 1000], [lat |-> 4000, lng |-> -7400], -7169>>,
      <<[lat |-> 6000, lng |-> 1000], [lat |-> -4000, lng |-> 10600], 10831>>,
      <<[lat |-> -3000, lng |-> 15000], [lat |-> 4500, lng |-> 9000], -3781>>,
      <<[lat |-> -3000, lng |-> 15000], [lat |-> 0, lng |-> 6000], -9000>>,
      <<[lat |-> -3000, lng |-> 15000], [lat |-> 5200, lng |-> 1300], -4256>>,
      <<[lat |-> -3000, lng |-> 15000], [lat |-> -1000, lng |-> -6000], 13951>>,
      <<[lat |-> -3000, lng |-> 15000], [lat |-> 4000, lng |-> -7400], 6215>>,
      <<[lat |-> -3000, lng |-> 15000], [lat |-> -4000, lng |-> 10600], -11785>> }

DestinationValues ==
    { <<[lat |-> 4500, lng |-> 9000], 10008, 4500, [lat |-> 3000, lng |-> 21526]>>,
      <<[lat |-> 0, lng |-> 0], 20016, 4500, [lat |-> 0, lng |-> 18000]>>,
      <<[lat |-> 0, lng |-> 6000], 6672, 9000, [lat |-> 0, lng |-> 12000]>>,
      <<[lat |-> 0, lng |-> 0], 13344, 9000, [lat |-> 0, lng |-> 12000]>>,
      <<[lat |-> 5200, lng |-> 1300], 5909, 997, [lat |-> 7331, lng |-> 16417]>>,
      <<[lat |-> 0, lng |-> 0], 11818, 997, [lat |-> 7098, lng |-> 14934]>>,
      <<[lat |-> -1000, lng |-> -6000], 6727, -10151, [lat |-> -1486, lng |-> -12193]>>,
      <<[lat |-> 0, lng |-> 0], 13454, -10151, [lat |-> -985, lng |-> -12152]>>,
      <<[lat |-> 4000, lng |-> -7400], 8652, -4888, [lat |-> 3891, lng |-> -18285]>>,
      <<[lat |-> 0, lng |-> 0], 17304, -4888, [lat |-> 1575, lng |-> -16115]>>,
      <<[lat |-> -4000, lng |-> 10600], 11363, 13112, [lat |-> -2090, lng |-> 23398]>>,
      <<[lat |-> 0, lng |-> 0], 22726, 13112, [lat |-> 1575, lng |-> -16115]>>,
      <<[lat |-> 4500, lng |-> 9000], 10429, 1126, [lat |-> 4018, lng |-> 25522]>>,
      <<[lat |-> 4000, lng |-> -7400], 20858, 1126, [lat |-> -4742, lng |-> -25182]>>,
      <<[lat |-> 0, lng |-> 6000], 13582, 5817, [lat |-> 2652, lng |-> 18649]>>,
      <<[lat |-> 4000, lng |-> -7400], 27164, 5817, [lat |-> -4000, lng |-> -16600]>>,
      <<[lat |-> 5200, lng |-> 1300], 6440, 4652, [lat |-> 5103, lng |-> 11515]>>,
      <<[lat |-> 4000, lng |-> -7400], 12880, 4652, [lat |-> 1121, lng |-> 6425]>>,
      <<[lat |-> -1000, lng |-> -6000], 5744, 16232, [lat |-> -5752, lng |-> -3366]>>,
      <<[lat |-> 4000, lng |-> -7400], 11488, 16232, [lat |-> -5912, lng |-> -3883]>>,
      <<[lat |-> 4000, lng |-> -7400], 0, 0, [lat |-> 4000, lng |-> -7400]>>,
      <<[lat |-> 4500, lng |-> 9000], 5298, 7045, [lat |-> 4063, lng |-> 15658]>>,
      <<[lat |-> 6000, lng |-> 1000], 10596, 7045, [lat |-> 498, lng |-> 11962]>>,
      <<[lat |-> 0, lng |-> 6000], 7923, 12601, [lat |-> -3383, lng |-> 12724]>>,
      <<[lat |-> 6000, lng |-> 1000], 15846, 12601, [lat |-> -6000, lng |-> 11000]>>,
      <<[lat |-> 5200, lng |-> 1300], 909, 16690, [lat |-> 4401, lng |-> 1557]>>,
      <<[lat |-> 6000, lng |-> 1000], 1818, 16690, [lat |-> 4395, lng |-> 1508]>>,
      <<[lat |-> -1000, lng |-> -6000], 9893, -11225, [lat |-> -2208, lng |-> -15297]>>,
      <<[lat |-> 6000, lng |-> 1000], 19786, -11225, [lat |-> -6073, lng |-> -16609]>>,
      <<[lat |-> 4000, lng |-> -7400], 5934, -7169, [lat |-> 3521, lng |-> -14283]>>,
      <<[lat |-> 6000, lng |-> 1000], 11868, -7169, [lat |-> -568, lng |-> -10398]>>,
      <<[lat |-> -4000, lng |-> 10600], 14081, 10831, [lat |-> 1098, lng |-> 23510]>>,
      <<[lat |-> 6000, lng |-> 1000], 28162, 10831, [lat |-> -568, lng |-> -10398]>>,
      <<[lat |-> 4500, lng |-> 9000], 10309, -3781, [lat |-> 3164, lng |-> -4401]>>,
      <<[lat |-> -3000, lng |-> 15000], 20618, -3781, [lat |-> 2566, lng |-> 32631]>>,
      <<[lat |-> 0, lng |-> 6000], 10008, -9000, [lat |-> 0, lng |-> -3000]>>,
      <<[lat |-> -3000, lng |-> 15000], 20016, -9000, [lat |-> 3000, lng |-> 33000]>>,
      <<[lat |-> 5200, lng |-> 1300], 15748, -4256, [lat |-> -1965, lng |-> -14052]>>,
      <<[lat |-> -3000, lng |-> 15000], 31496, -4256, [lat |-> -4735, lng |-> 25366]>>,
      <<[lat |-> -1000, lng |-> -6000], 14531, 13951, [lat |-> -2706, lng |-> 8643]>>,
      <<[lat |-> -3000, lng |-> 15000], 29062, 13951, [lat |-> 4658, lng |-> 8095]>>,
      <<[lat |-> 4000, lng |-> -7400], 15901, 6215, [lat |-> -1734, lng |-> 7212]>>,
      <<[lat |-> -3000, lng |-> 15000], 31802, 6215, [lat |-> -3178, lng |-> 6095]>>,
      <<[lat |-> -4000, lng |-> 10600], 4114, -11785, [lat |-> -4678, lng |-> 5501]>>,
      <<[lat |-> -3000, lng |-> 15000], 8228, -11785, [lat |-> -3178, lng |-> 6095]>> }
turfDistanceKm(a, b) ==
    (CHOOSE v \in DistanceValues : v[1] = a /\ v[2] = b)[3]

turfBearing(a, b) ==
    (CHOOSE v \in BearingValues : v[1] = a /\ v[2] = b)[3]

turfDestination(origin, distanceKm, bearing) ==
    (CHOOSE v \in DestinationValues :
        v[1] = origin /\ v[2] = distanceKm /\ v[3] = bearing)[4]

\* The two GeoCalc objects of the repository.
GeoCalcs == {"geo-calc.js", "part_003"}

\* calculateReflection after its range check: the reflection point.
\* geo-calc.js goes the distance on from the target with the bearing taken
\* at the source; part_003 goes twice the distance from the source.
reflectionPoint(geoCalc, source, target, distanceKm) ==
    LET bearing == turfBearing(source, target)
    IN  IF geoCalc = "geo-calc.js"
        THEN turfDestination(target, distanceKm, bearing)
        ELSE turfDestination(source, distanceKm * 2, bearing)

MirrorUnchanged ==
    UNCHANGED <<build, seek, cache, heat, loader, searchVars, finderVars, gridVars,
                apiVars, wVars, histVars>>

\* calculateReflection(source, target) of one of the GeoCalc objects is
\* called.
MirrorStart ==
    \E geoCalc \in GeoCalcs, source \in ReflectSources, target \in ReflectionTargets :
        reflect = [phase |-> "called", geoCalc |-> geoCalc, source |-> source,
                   target |-> target, distanceKm |-> 0, result |-> null]

\* turf.distance and the test against MAX_DISTANCE_KM.
MeasureDistance ==
    /\ reflect.phase = "called"
    /\ LET distanceKm == turfDistanceKm(reflect.source, reflect.target)
       IN  reflect' = [reflect EXCEPT
              !.distanceKm = distanceKm,
              !.phase = IF distanceKm > MAX_DISTANCE_KM THEN "returned" ELSE "measured"]
    /\ MirrorUnchanged

\* turf.bearing, turf.destination and the return of the reflection.
PlaceReflection ==
    /\ reflect.phase = "measured"
    /\ reflect' = [reflect EXCEPT
          !.phase = "returned",
          !.result = [point |-> reflectionPoint(reflect.geoCalc, reflect.source,
                                                reflect.target, reflect.distanceKm),
                      distance |-> reflect.distanceKm]]
    /\ MirrorUnchanged

InitMirror ==
    /\ InitOffload
    /\ SearchIdle
    /\ FinderIdle
    /\ GridIdle
    /\ build = Idle
    /\ seek = Idle
    /\ cache = Idle
    /\ heat = Idle
    /\ loader = Idle
    /\ MirrorStart

NextMirror ==
    \/ MeasureDistance
    \/ PlaceReflection

MirrorSpec == InitMirror /\ [][NextMirror]_vars

\* The length of a great circle of the sphere of turf.distance, in km.
CircumferenceKm == 40030

\* The distance between two points that lie d1 and d2 km from a third one
\* in opposite directions on one great circle.
Across(d1, d2) ==
    IF 2 * (d1 + d2) <= CircumferenceKm THEN d1 + d2
    ELSE CircumferenceKm - (d1 + d2)

\* Equal up to the rounding of the distances to the kilometre.
Nearly(x, y) == Abs(x - y) <= 2

\* C31: the returned point R lies as far from the target as the source
\* does, on the far side of it on the great circle from the source through
\* the target: the target is the midpoint of the way from the source to R.
C31_TargetIsMidpoint ==
    (reflect.phase = "returned" /\ "geoCalc" \in DOMAIN reflect /\ reflect.result # null) =>
        LET R == reflect.result.point
            d == reflect.distanceKm
        IN  /\ Nearly(turfDistanceKm(reflect.target, R), d)
            /\ Nearly(turfDistanceKm(reflect.source, R), Across(d, d))


\* ======================================================================
\* The kernel probe of the worker (initWasm).

\* C32: a worker posts one 'ready' message, the outcome of the one initWasm
\* of its lifetime.
C32_OneProbeOneReady ==
    Cardinality({k \in 1..Len(posted) : posted[k].type = "ready"}) <= 1


\* ======================================================================
\* DataLoader.parseLine (lib/data-loader.js) on one CSV line.  A line is
\* its comma-separated fields; a field is empty, a number, a number
\* followed by other characters (parseFloat reads the number), another
\* text, or a quoted string.  Coordinates are in degrees, radii in km.
\* ======================================================================

\* Largest number of fields of a line.
MaxFields == 3

DEFAULT_RADIUS_KM == 10

FieldValues == {-181, -91, -5, 0, 90, 180}

Fields ==
    [kind : {"number", "numberThenText"}, value : FieldValues]
        \cup [kind : {"empty", "text", "quoted"}, value : {0}]

Lines ==
    [comment : BOOLEAN,
     fields : UNION {[1..n -> Fields] : n \in 0..MaxFields},
     defaultRadius : {0, 25}]

\* isNaN(parseFloat(part))
IsNaN(part) == part.kind \notin {"number", "numberThenText"}

\* processedLine.split(',').map(s => s.trim()).filter(s => s)
RECURSIVE Parts(_)
Parts(fields) ==
    IF fields = <<>> THEN <<>>
    ELSE IF fields[1].kind = "empty" THEN Parts(Tail(fields))
    ELSE <<fields[1]>> \o Parts(Tail(fields))

\* "Validate coordinates".
OutOfRangeCoordinates(lat, lng) == lat < -90 \/ lat > 90 \/ lng < -180 \/ lng > 180

RECURSIVE RadiusOf(_, _)
\* The loop over parts[2..]: radiusKm is the first part that parses as a
\* number; 0 stands for null when there is none.
RadiusOf(parts, i) ==
    IF i > Len(parts) THEN [found |-> FALSE, radiusKm |-> 0]
    ELSE IF ~IsNaN(parts[i]) THEN [found |-> TRUE, radiusKm |-> parts[i].value]
    ELSE RadiusOf(parts, i + 1)

RECURSIVE TitleOf(_, _)
\* The loop over parts[2..]: the title is the first quoted or non-numeric
\* part.
TitleOf(parts, i) ==
    IF i > Len(parts) THEN "null"
    ELSE IF IsNaN(parts[i]) THEN parts[i].kind
    ELSE TitleOf(parts, i + 1)

NoPoint == [null |-> TRUE]

\* parseLine(line, index, options)
parseLine(line) ==
    LET parts == Parts(line.fields)
    IN  IF line.comment \/ line.fields = <<>> THEN NoPoint
        ELSE IF Len(parts) < 2 THEN NoPoint
        ELSE IF IsNaN(parts[1]) \/ IsNaN(parts[2]) THEN NoPoint
        ELSE IF OutOfRangeCoordinates(parts[1].value, parts[2].value) THEN NoPoint
        ELSE LET found == RadiusOf(parts, 3)
                 radiusKm == IF found.found THEN found.radiusKm
                             ELSE IF line.defaultRadius # 0 THEN line.defaultRadius
                             ELSE DEFAULT_RADIUS_KM
             IN  [lat |-> parts[1].value,
                  lng |-> parts[2].value,
                  radius |-> radiusKm * 1000,
                  radiusKm |-> radiusKm,
                  title |-> TitleOf(parts, 3)]

LoaderUnchanged ==
    UNCHANGED <<build, seek, cache, heat, reflect, searchVars, finderVars, gridVars,
                apiVars, wVars, histVars>>

\* parseCSV reaches a line.
LoaderStart ==
    \E line \in Lines : loader = [phase |-> "line", line |-> line, point |-> NoPoint]

\* parseLine returns; parseCSV pushes the point unless it is null.
ParseLine ==
    /\ loader.phase = "line"
    /\ loader' = [loader EXCEPT !.phase = "parsed", !.point = parseLine(loader.line)]
    /\ LoaderUnchanged

InitLoader ==
    /\ InitOffload
    /\ SearchIdle
    /\ FinderIdle
    /\ GridIdle
    /\ build = Idle
    /\ seek = Idle
    /\ cache = Idle
    /\ heat = Idle
    /\ reflect = Idle
    /\ LoaderStart

NextLoader == ParseLine

LoaderSpec == InitLoader /\ [][NextLoader]_vars

\* The line was accepted: its point is handed on.
Accepted == loader.phase = "parsed" /\ loader.point # NoPoint

\* C33: every point of an accepted line has its latitude in -90..90, its
\* longitude in -180..180 and a radius of at least 0 metres.
C33_AcceptedPointsWellFormed ==
    Accepted =>
        /\ loader.point.lat >= -90 /\ loader.point.lat <= 90
        /\ loader.point.lng >= -180 /\ loader.point.lng <= 180
        /\ loader.point.radius >= 0


\* C34: getNearbyGridKeys returns no key twice, and no precomputed pair is
\* twice among the results of a query.
C34_NoCellTwice ==
    Called =>
        /\ \A a \in 1..Len(seek.keys), b \in 1..Len(seek.keys) :
              seek.keys[a].key = seek.keys[b].key => a = b
        /\ \A a \in 1..Len(seek.combinations), b \in 1..Len(seek.combinations) :
              seek.combinations[a].pair = seek.combinations[b].pair => a = b


\* C35: whenever isReady is true, cities and gridIndex are those of the
\* directory of currentDataset.
C35_ReadyMeansCurrentData ==
    (cache.phase = "page" /\ cache.isReady) =>
        /\ cache.cities = cache.currentDataset
        /\ cache.gridIndex = cache.currentDataset


\* C36: the results in combinations were computed from the pairs and the
\* cities of one dataset, the current one, and were not written after a
\* switch that began during their query had cleared combinations.
C36_ResultsOfOneDataset ==
    (cache.phase = "page" /\ cache.combinations.pairs # {}) =>
        /\ cache.combinations.pairs = {cache.combinations.cities}
        /\ cache.combinations.cities = cache.combinations.dataset
        /\ cache.combinations.clearedSince = 0


\* The rows and columns of the global grid: ceil(180 / latStep) and
\* ceil(360 / lngStep) with latStep = lngStep = tileSize / 111.
GridRows == (180 * 111 + tileSize - 1) \div tileSize
GridColumns == (360 * 111 + tileSize - 1) \div tileSize

\* C37: every coloured tile lies in the global grid and every recorded
\* distance is at least 0.
C37_TilesInsideGrid ==
    Filling =>
        \A key \in DOMAIN heat.tileGrid :
            /\ key[1] \in 0..(GridRows - 1)
            /\ key[2] \in 0..(GridColumns - 1)
            /\ heat.tileDistances[key] >= 0


\* C38: every key is in the queue at most once, every queued key is a
\* coloured tile, and the loop has made at most as many iterations as there
\* are queue entries and as the limit on the coloured tiles allows, the
\* iteration that stops the loop counted.
C38_QueueBounded ==
    Filling =>
        /\ \A a \in 1..Len(heat.queue), b \in 1..Len(heat.queue) :
              heat.queue[a].key = heat.queue[b].key => a = b
        /\ \A a \in 1..Len(heat.queue) : heat.queue[a].key \in DOMAIN heat.tileGrid
        /\ heat.queueIndex <= Len(heat.queue)
        /\ heat.queueIndex <= heat.limit + 1

\* A fill of two seeds in one tile's neighbourhood has ended with the whole
\* queue processed and more tiles coloured than seeded.
C38_Witness ==
    /\ heat.phase = "rendered"
    /\ ~heat.stopped
    /\ Len(heat.midpoints) > 1
    /\ heat.queueIndex = Len(heat.queue)
    /\ Len(heat.queue) = Cardinality(DOMAIN heat.tileGrid)
    /\ Len(heat.queue) > Cardinality(Seeds)



\* C39: every record of a cell has a stored midpoint that lies in that cell,
\* and the longitude bucket of every cell written is within 0..71.
C39_StoredMidpointInItsCell ==
    \A r \in Records(build.grid) :
        /\ getGridKey(build.grid[r[1]][r[2]].lat, build.grid[r[1]][r[2]].lng) = r[1]
        /\ r[1].lngB \in 0..71



\* ======================================================================
\* The reflection page (app.js): SOURCE_POINTS, state.reflections,
\* state.target and state.activeSourceIndex under the upload of a source
\* file, the Calculate button and clicks on the map.  Points lie on the
\* equator with longitudes in tenths of a degree, as above.
\* ======================================================================

\* Largest number of handlers run on the page.
MaxAppSteps == 3

\* The points of the source files and the places clicked on.
AppPoints == {[lng |-> 0, radius |-> 10], [lng |-> 1799, radius |-> 20]}
SourceFiles == UNION {[1..n -> AppPoints] : n \in 0..MaxSources}
ClickPoints == {[lng |-> 0], [lng |-> 1000]}

RECURSIVE calculateAllReflections(_, _, _)
\* calculateAllReflections(sources, target): the entries pushed by the
\* forEach callback from the source at index on.
calculateAllReflections(sources, target, index) ==
    IF index >= Len(sources) THEN <<>>
    ELSE LET source == sources[index + 1]
             reflection == calculateReflection(source, target)
             rest == calculateAllReflections(sources, target, index + 1)
         IN  IF reflection # null
             THEN <<[radius |-> source.radius,
                     sourceIndex |-> index,
                     distance |-> reflection.distance,
                     isAntipodal |-> reflection.distance >
                         ANTIPODAL_THRESHOLD_KM * MetresPerKm]>> \o rest
             ELSE rest

\* scoreDistance of findNearestReflection in twentieths of a degree: the
\* distance from the midpoint of the click and the source to the target.
\* turf.midpoint lies halfway on the shorter arc between the two points.
scoreDistance(clickPoint, source, target) ==
    LET sum == clickPoint.lng + source.lng
        midpoint == IF Abs(clickPoint.lng - source.lng) <= 1800 THEN sum ELSE sum + 3600
        d == Abs(midpoint - 2 * target.lng) % 7200
    IN  Min(d, 7200 - d)

TypeError == [threw |-> "TypeError"]

\* findNearestReflection(clickPoint, reflections, sources, target) on a
\* list that is not empty: the place in the list of the first reflection
\* with the smallest score.  sources[reflection.sourceIndex] is undefined
\* for an index beyond the list, and reading its lat throws.
findNearestReflection(clickPoint, reflections, sources, target) ==
    IF \E k \in 1..Len(reflections) : reflections[k].sourceIndex >= Len(sources)
    THEN TypeError
    ELSE LET score(k) == scoreDistance(clickPoint, sources[reflections[k].sourceIndex + 1],
                                       target)
         IN  [index |-> CHOOSE k \in 1..Len(reflections) :
                            /\ \A m \in 1..Len(reflections) : score(k) <= score(m)
                            /\ \A m \in 1..(k - 1) : score(m) > score(k)]

AppUnchanged ==
    UNCHANGED <<build, seek, cache, heat, loader, searchVars, finderVars, gridVars,
                apiVars, wVars, histVars>>

\* The page after loadSourcePoints: the points of the stored file, no
\* target and no reflections.  computedFrom is the list of source points
\* the reflections were computed from, steps the number of handlers run.
AppStart ==
    \E points \in SourceFiles :
        reflect = [phase |-> "app", SOURCE_POINTS |-> points, reflections |-> <<>>,
                   computedFrom |-> <<>>, target |-> null, activeSourceIndex |-> <<>>,
                   threw |-> FALSE, steps |-> 0]

\* The callback of handleSourceFileUpload with the points of the file.
HandleSourceFileUpload ==
    /\ reflect.phase = "app"
    /\ reflect.steps < MaxAppSteps
    /\ \E points \in SourceFiles :
          reflect' = [reflect EXCEPT !.SOURCE_POINTS = points,
                                     !.threw = FALSE,
                                     !.steps = @ + 1]
    /\ AppUnchanged

\* calculateReflections() with a target that parses.
CalculateReflections ==
    /\ reflect.phase = "app"
    /\ reflect.steps < MaxAppSteps
    /\ \E target \in ReflectTargets :
          reflect' = [reflect EXCEPT
              !.target = target,
              !.activeSourceIndex = <<>>,
              !.reflections = calculateAllReflections(reflect.SOURCE_POINTS, target, 0),
              !.computedFrom = reflect.SOURCE_POINTS,
              !.threw = FALSE,
              !.steps = @ + 1]
    /\ AppUnchanged

\* handleMapClick(e)
HandleMapClick ==
    /\ reflect.phase = "app"
    /\ reflect.steps < MaxAppSteps
    /\ \E clickPoint \in ClickPoints :
          IF reflect.reflections = <<>>
          THEN reflect' = [reflect EXCEPT !.threw = FALSE, !.steps = @ + 1]
          ELSE LET nearest == findNearestReflection(clickPoint, reflect.reflections,
                                                    reflect.SOURCE_POINTS, reflect.target)
               IN  IF nearest = TypeError
                   THEN reflect' = [reflect EXCEPT !.threw = TRUE, !.steps = @ + 1]
                   ELSE reflect' = [reflect EXCEPT
                           !.activeSourceIndex =
                               <<reflect.reflections[nearest.index].sourceIndex>>,
                           !.threw = FALSE,
                           !.steps = @ + 1]
    /\ AppUnchanged

InitApp ==
    /\ InitOffload
    /\ SearchIdle
    /\ FinderIdle
    /\ GridIdle
    /\ build = Idle
    /\ seek = Idle
    /\ cache = Idle
    /\ heat = Idle
    /\ loader = Idle
    /\ AppStart

NextApp ==
    \/ HandleSourceFileUpload
    \/ CalculateReflections
    \/ HandleMapClick

AppSpec == InitApp /\ [][NextApp]_vars

\* C40: every entry of state.reflections has a sourceIndex within the
\* current SOURCE_POINTS, and the point at that index is the source point
\* the reflection was computed from.
C40_SourceIndexDenotesItsSource ==
    reflect.phase = "app" =>
        \A k \in 1..Len(reflect.reflections) :
            LET index == reflect.reflections[k].sourceIndex
            IN  /\ index \in 0..(Len(reflect.SOURCE_POINTS) - 1)
                /\ reflect.SOURCE_POINTS[index + 1] = reflect.computedFrom[index + 1]

=============================================================================
